---- MODULE Spec2Model ----
(***************************************************************************)
(* A model of the golongtail command layer (cmd/longtail/main.go) and of   *)
(* the S3 blob store (longtailstorelib/s3Store.go).                        *)
(*                                                                         *)
(* File contents are sequences of data units; one data unit is the content *)
(* of one chunk.  The chunker, the hash functions, the index algorithms    *)
(* and the block store layers live in longtaillib / longtailstorelib and   *)
(* are modelled from their specification; the commands that call them are  *)
(* modelled from main.go, step by step.                                    *)
(***************************************************************************)
EXTENDS Integers, Sequences, FiniteSets, TLC

(***************************************************************************)
(* Bounds of the model.                                                    *)
(***************************************************************************)
MaxData == 2        \* number of distinct chunk contents
MaxFileLen == 1     \* chunks per file
MaxUploads == 2     \* upsyncs run one after another in one behaviour
MaxAttempts == 2    \* attempts of one store-index write-back
MaxCommands == 3    \* commands run one after another when pruning
MaxWorkers == 2     \* numWorkerCount, the goroutines of one prune batch
MaxTransfers == 2   \* commands of a behaviour that uploads and downloads

(***************************************************************************)
(* Generic helpers.                                                        *)
(***************************************************************************)
Range(s) == {s[i] : i \in 1..Len(s)}

Front(s) == SubSeq(s, 1, Len(s) - 1)

Last(s) == s[Len(s)]

Min(a, b) == IF a <= b THEN a ELSE b

RECURSIVE Flatten(_)
Flatten(ss) == IF ss = <<>> THEN <<>> ELSE Head(ss) \o Flatten(Tail(ss))

RECURSIVE Dedup(_)
Dedup(s) ==
    IF s = <<>> THEN <<>>
    ELSE LET r == Dedup(Front(s))
         IN  IF Last(s) \in Range(r) THEN r ELSE Append(r, Last(s))

IndexOf(s, x) == CHOOSE i \in 1..Len(s) : s[i] = x

SeqsUpTo(S, n) == UNION {[1..k -> S] : k \in 0..n}

(***************************************************************************)
(* Directory trees.                                                        *)
(***************************************************************************)
PathOrder == <<"a", "b">>       \* lexicographic order of the asset paths

Paths == Range(PathOrder)

DataUnits == 1..MaxData

Perms == {420, 493}             \* 0644, 0755

PlainPerms == {420}

NoAsset == [present |-> FALSE, data |-> <<>>, perm |-> 0]

Contents == SeqsUpTo(DataUnits, MaxFileLen)

AssetsOf(perms) == {NoAsset} \cup [present : {TRUE}, data : Contents, perm : perms]

Trees == [Paths -> AssetsOf(Perms)]

PlainTrees == [Paths -> AssetsOf(PlainPerms)]

EmptyTree == [p \in Paths |-> NoAsset]

(***************************************************************************)
(* Hashing.  All hashes are numbers; a hash of a sequence is an injective  *)
(* encoding of the sequence (equal hash <=> equal content).                *)
(***************************************************************************)
hashIdentifierMap == [meow |-> 1, blake2 |-> 2, blake3 |-> 3]

compressionTypeMap == [none |-> 0, zstd |-> 1, lz4 |-> 2]

getHashIdentifier(hashAlgorithm) ==
    IF hashAlgorithm \in DOMAIN hashIdentifierMap
    THEN [id |-> hashIdentifierMap[hashAlgorithm], err |-> ""]
    ELSE [id |-> 0, err |-> "not a supported hash api"]

getCompressionType(compressionAlgorithm) ==
    IF compressionAlgorithm \in DOMAIN compressionTypeMap
    THEN [type |-> compressionTypeMap[compressionAlgorithm], err |-> ""]
    ELSE [type |-> 0, err |-> "unsupported compression algorithm"]

ChunkHash(hashId, d) == hashId * 16 + d

ChunkData(chunkHash) == chunkHash % 16

\* hashes have a fixed width: the fold is reduced modulo a prime below 2^24
HashModulus == 16777213

RECURSIVE HashOfHashes(_)
HashOfHashes(s) ==
    IF s = <<>> THEN 0
    ELSE (HashOfHashes(Front(s)) * 64 + Last(s)) % HashModulus

BlockHash(chunkHashes) == HashOfHashes(chunkHashes)

AssetHash(chunkHashes) == HashOfHashes(chunkHashes)

(***************************************************************************)
(* Version index (longtaillib.CreateVersionIndex): the assets in path      *)
(* order, the deduplicated chunk table in asset-then-position order, and   *)
(* per asset the indexes into that table.                                  *)
(***************************************************************************)
VersionIndexMagic == 7001

VersionIndexVersion == 2

StoreIndexMagic == 7002

StoreIndexVersion == 1

FileChunkHashes(dir, p, hashId) ==
    [i \in 1..Len(dir[p].data) |-> ChunkHash(hashId, dir[p].data[i])]

CreateVersionIndex(dir, hashId, targetChunkSize) ==
    LET paths == SelectSeq(PathOrder, LAMBDA p : dir[p].present)
        table == Dedup(Flatten([i \in 1..Len(paths) |->
                                   FileChunkHashes(dir, paths[i], hashId)]))
    IN  [version         |-> VersionIndexVersion,
         hashId          |-> hashId,
         targetChunkSize |-> targetChunkSize,
         chunkHashes     |-> table,
         assets          |-> [i \in 1..Len(paths) |->
             LET ch == FileChunkHashes(dir, paths[i], hashId)
             IN  [path         |-> paths[i],
                  size         |-> Len(ch),
                  perm         |-> dir[paths[i]].perm,
                  hash         |-> AssetHash(ch),
                  chunkIndexes |-> [j \in 1..Len(ch) |-> IndexOf(table, ch[j])]]]]

GetChunkHashes(vindex) == vindex.chunkHashes

AssetChunkHashes(vindex, i) ==
    [j \in 1..Len(vindex.assets[i].chunkIndexes) |->
        vindex.chunkHashes[vindex.assets[i].chunkIndexes[j]]]

AssetPaths(vindex) == {vindex.assets[i].path : i \in 1..Len(vindex.assets)}

(***************************************************************************)
(* Store index: a sequence of block indexes [blockHash, chunkHashes].      *)
(***************************************************************************)
BlockIndex(chunkHashes) ==
    [blockHash |-> BlockHash(chunkHashes), chunkHashes |-> chunkHashes]

GetBlockHashes(storeIndex) ==
    [i \in 1..Len(storeIndex) |-> storeIndex[i].blockHash]

StoreIndexChunks(storeIndex) ==
    UNION {Range(storeIndex[i].chunkHashes) : i \in 1..Len(storeIndex)}

RECURSIVE SortByBlockHash(_)
SortByBlockHash(S) ==
    IF S = {} THEN <<>>
    ELSE LET m == CHOOSE b \in S : \A o \in S : b.blockHash <= o.blockHash
         IN  <<m>> \o SortByBlockHash(S \ {m})

\* Longtail_GetExistingStoreIndex: the blocks of the index that hold a
\* requested chunk and whose share of requested chunks reaches the threshold.
BlockUsagePercent(block, chunkHashes) ==
    (Cardinality(Range(block.chunkHashes) \cap Range(chunkHashes)) * 100)
        \div Len(block.chunkHashes)

GetExistingStoreIndex(index, chunkHashes, minBlockUsagePercent) ==
    SortByBlockHash({b \in index :
        /\ Range(b.chunkHashes) \cap Range(chunkHashes) # {}
        /\ BlockUsagePercent(b, chunkHashes) >= minBlockUsagePercent})

\* Longtail_CreateMissingContent: the chunks of the version that the existing
\* index lacks, in chunk-table order, packed greedily into blocks.
RECURSIVE PackChunks(_, _)
PackChunks(chunkHashes, perBlock) ==
    IF chunkHashes = <<>> THEN <<>>
    ELSE LET n == Min(perBlock, Len(chunkHashes))
         IN  <<BlockIndex(SubSeq(chunkHashes, 1, n))>>
                 \o PackChunks(SubSeq(chunkHashes, n + 1, Len(chunkHashes)), perBlock)

\* a packing that closes a block at the size limit only
CreateMissingContentBySize(existing, vindex, targetBlockSize, maxChunksPerBlock) ==
    LET have == StoreIndexChunks(existing)
        need == SelectSeq(GetChunkHashes(vindex), LAMBDA c : c \notin have)
    IN  PackChunks(need, targetBlockSize)

CreateMissingContent(existing, vindex, targetBlockSize, maxChunksPerBlock) ==
    LET have == StoreIndexChunks(existing)
        need == SelectSeq(GetChunkHashes(vindex), LAMBDA c : c \notin have)
    IN  PackChunks(need, Min(maxChunksPerBlock, targetBlockSize))

\* a merge that keeps every block of both indexes
MergeStoreIndexKeepsAll(a, b) == a \o b

\* Longtail_MergeStoreIndex: the blocks of a, then the blocks of b whose hash
\* a does not list.
MergeStoreIndex(a, b) ==
    a \o SelectSeq(b, LAMBDA blk : blk.blockHash \notin Range(GetBlockHashes(a)))

\* Longtail_ValidateStore: 0 when every chunk of the version is in the index.
ValidateStore(storeIndex, vindex) ==
    IF Range(GetChunkHashes(vindex)) \subseteq StoreIndexChunks(storeIndex)
    THEN 0 ELSE 2

(***************************************************************************)
(* Blobs at URIs (longtailstorelib.ReadFromURI / WriteToURI) and the       *)
(* buffers of the two index formats.                                       *)
(***************************************************************************)
NoBlob == [kind |-> "none"]

VersionIndexHeaderSize == 8

AssetEntrySize == 8

StoreIndexHeaderSize == 5

BlockEntrySize == 3

PathHash(p) == IndexOf(PathOrder, p)

\* the number of elements of the first n sequences of a sequence of sequences
RECURSIVE CountBefore(_, _)
CountBefore(ss, n) == IF n = 0 THEN 0 ELSE CountBefore(ss, n - 1) + Len(ss[n])

\* .lvi: [magic, version, hash_id, target_chunk_size, asset_count, chunk_count,
\* asset_chunk_index_count, asset_paths_size] [per asset: path_hash,
\* content_hash, size, permissions, tag, chunk_count, chunk_index_start,
\* name_offset] [chunk_hash[]] [chunk_size[]] [asset_chunk_indexes[]]
\* [path string pool]
WriteVersionIndexToBuffer(vindex) ==
    LET n == Len(vindex.assets)
        indexes == [i \in 1..n |-> vindex.assets[i].chunkIndexes]
        flat == Flatten(indexes)
        entry(i) == <<PathHash(vindex.assets[i].path), vindex.assets[i].hash,
                      vindex.assets[i].size, vindex.assets[i].perm, 0,
                      Len(indexes[i]), CountBefore(indexes, i - 1), i - 1>>
    IN  [kind  |-> "bytes",
         words |-> <<VersionIndexMagic, vindex.version, vindex.hashId,
                     vindex.targetChunkSize, n, Len(vindex.chunkHashes), Len(flat), n>>
                   \o Flatten([i \in 1..n |-> entry(i)])
                   \o vindex.chunkHashes
                   \o [i \in 1..Len(vindex.chunkHashes) |-> 1]
                   \o flat,
         pool  |-> [i \in 1..n |-> vindex.assets[i].path]]

\* .lsi: [magic, version, hash_id, block_count, chunk_count] [block_hash[]]
\* [per block: chunk_count, tag, offset of its chunks] [chunk_hash[]]
\* [chunk_size[]]
WriteStoreIndexToBuffer(storeIndex) ==
    LET n == Len(storeIndex)
        lists == [i \in 1..n |-> storeIndex[i].chunkHashes]
        flat == Flatten(lists)
    IN  [kind  |-> "bytes",
         words |-> <<StoreIndexMagic, StoreIndexVersion, 0, n, Len(flat)>>
                   \o [i \in 1..n |-> storeIndex[i].blockHash]
                   \o Flatten([i \in 1..n |->
                                  <<Len(lists[i]), 0, CountBefore(lists, i - 1)>>])
                   \o flat
                   \o [i \in 1..Len(flat) |-> 1],
         pool  |-> <<>>]

HasHeader(buffer, magic, version, size) ==
    /\ buffer.kind = "bytes"
    /\ Len(buffer.words) >= size
    /\ buffer.words[1] = magic
    /\ buffer.words[2] = version

\* errno 0 and the index, or errno # 0 for a buffer of another format
ReadVersionIndexFromBuffer(buffer) ==
    IF ~HasHeader(buffer, VersionIndexMagic, VersionIndexVersion, VersionIndexHeaderSize)
    THEN [errno |-> 22, vindex |-> CreateVersionIndex(EmptyTree, 0, 0)]
    ELSE LET w == buffer.words
             n == w[5]
             chunkCount == w[6]
             entry(i) == SubSeq(w, VersionIndexHeaderSize + AssetEntrySize * (i - 1) + 1,
                                VersionIndexHeaderSize + AssetEntrySize * i)
             chunkBase == VersionIndexHeaderSize + AssetEntrySize * n
             indexBase == chunkBase + 2 * chunkCount
             flat == SubSeq(w, indexBase + 1, indexBase + w[7])
         IN  [errno  |-> 0,
              vindex |-> [version         |-> w[2],
                          hashId          |-> w[3],
                          targetChunkSize |-> w[4],
                          chunkHashes     |-> SubSeq(w, chunkBase + 1, chunkBase + chunkCount),
                          assets          |-> [i \in 1..n |->
                              [path         |-> buffer.pool[entry(i)[8] + 1],
                               size         |-> entry(i)[3],
                               perm         |-> entry(i)[4],
                               hash         |-> entry(i)[2],
                               chunkIndexes |-> SubSeq(flat, entry(i)[7] + 1,
                                                       entry(i)[7] + entry(i)[6])]]]]

ReadStoreIndexFromBuffer(buffer) ==
    IF ~HasHeader(buffer, StoreIndexMagic, StoreIndexVersion, StoreIndexHeaderSize)
    THEN [errno |-> 22, storeIndex |-> <<>>]
    ELSE LET w == buffer.words
             n == w[4]
             entry(i) == SubSeq(w, StoreIndexHeaderSize + n + BlockEntrySize * (i - 1) + 1,
                                StoreIndexHeaderSize + n + BlockEntrySize * i)
             chunkBase == StoreIndexHeaderSize + n + BlockEntrySize * n
         IN  [errno      |-> 0,
              storeIndex |-> [i \in 1..n |->
                  [blockHash   |-> w[StoreIndexHeaderSize + i],
                   chunkHashes |-> SubSeq(w, chunkBase + entry(i)[3] + 1,
                                          chunkBase + entry(i)[3] + entry(i)[1])]]]

(***************************************************************************)
(* State.                                                                  *)
(***************************************************************************)
VARIABLES
    backend,        \* blob backend of the store: "gcs", "s3" or "fs"
    handles,        \* the handles and goroutines of a call that is followed
    storeBlocks,    \* the block files of the store (set of stored blocks)
    storeIndex,     \* the canonical store index blob (set of block indexes)
    storeGen,       \* generation of the store index blob
    blobs,          \* the index and config blobs, by URI
    target,         \* the target folder of downsync
    ops,            \* number of commands started
    faults,         \* the commands whose I/O may fail in this behaviour
    up,             \* the running upSyncVersion calls, by writer
    uploaded,       \* per version index URI, the folder the index was made of
    val,            \* the running validateVersion call
    pr,             \* the running pruneStore call
    down,           \* the running downSyncVersion call
    show,           \* the running showVersionIndex call
    stats,          \* the running stats call
    cacheLocal,     \* the block files of the local cache store (--cache-path)
    cachePending,   \* blocks the cache store still has to put into its local store
    pipe,           \* the block store pipeline serving one ChangeVersion
    clone,          \* the running cloneStore call
    targetRemote,   \* the target store of cloneStore and the target URIs
    fn              \* one call of an index operation: its arguments and result

\* the state of the commands that only read the store
inspectVars == <<show, stats, cacheLocal, cachePending>>

vars == <<backend, handles, clone, targetRemote, storeBlocks, storeIndex, storeGen, blobs, target, ops, faults,
          up, uploaded, val, pr, down, inspectVars, pipe, fn>>

\* what no upSyncVersion step touches
upFrame == <<backend, handles, clone, targetRemote, target, faults, val, pr, down, inspectVars, pipe, fn>>

Writers == {"w1", "w2"}

VersionURIs == {"v1.lvi", "v2.lvi"}

StoreIndexURIs == {"v1.lsi", "v2.lsi"}

ConfigURIs == {"get.json"}

URIs == VersionURIs \cup StoreIndexURIs \cup ConfigURIs

\* the results an I/O call of a command can have: success, or EIO when the
\* environment of the behaviour lets the calls of that command fail
Errnos(command) == IF command \in faults THEN {0, 5} ELSE {0}

\* longtailstorelib.ReadFromURI: the blob at the URI, or an error
ReadFromURI(uri) ==
    IF uri \in URIs /\ blobs[uri] # NoBlob
    THEN [err |-> "", buffer |-> blobs[uri]]
    ELSE [err |-> "ReadFromURI failed", buffer |-> NoBlob]

(***************************************************************************)
(* createBlockStoreForURI: the backend by URI scheme.                      *)
(***************************************************************************)
\* a URI as url.Parse splits it: scheme://host and the path, the path a
\* sequence of separators and names; a bare path has no scheme and no host
StoreURI(scheme) ==
    [scheme |-> scheme,
     host   |-> IF scheme \in {"gs", "s3"} THEN "bucket" ELSE "",
     path   |-> IF scheme = "" THEN <<"store">> ELSE <<"/", "store">>]

\* the URI as it was written
URIText(uri) ==
    IF uri.scheme = "" THEN uri.path
    ELSE <<uri.scheme, "://">> \o (IF uri.host = "" THEN <<>> ELSE <<uri.host>>)
             \o uri.path

\* main.go 36-79; blobStoreURL.Path[1:] of an empty path is a slice out of
\* range, which ends the process
createBlockStoreForURI(uri) ==
    CASE uri.scheme = "gs"    -> [kind |-> "remote", blob |-> "gcs", root |-> <<>>, err |-> ""]
      [] uri.scheme = "s3"    -> [kind |-> "remote", blob |-> "s3", root |-> <<>>, err |-> ""]
      [] uri.scheme = "abfs"  -> [kind |-> "none", blob |-> "", root |-> <<>>,
                                  err |-> "azure Gen1 storage not yet implemented"]
      [] uri.scheme = "abfss" -> [kind |-> "none", blob |-> "", root |-> <<>>,
                                  err |-> "azure Gen2 storage not yet implemented"]
      [] uri.scheme = "file"  ->
             IF uri.path = <<>>
             THEN [kind |-> "none", blob |-> "", root |-> <<>>,
                   err |-> "panic: slice bounds out of range"]
             ELSE [kind |-> "fs", blob |-> "fs", root |-> Tail(uri.path), err |-> ""]
      [] OTHER                -> [kind |-> "fs", blob |-> "fs", root |-> URIText(uri),
                                  err |-> ""]

SchemeOf(be) == CASE be = "gcs" -> "gs" [] be = "s3" -> "s3" [] OTHER -> "file"

\* s3BlobClient.SupportsLocking is false; the GCS and file backends lock on
\* the generation of the blob.
SupportsLocking(be) == be # "s3"

(***************************************************************************)
(* The block store under the commands (remote or file-system block store). *)
(***************************************************************************)
StoredBlock(blockIndex, tag, payload) ==
    [blockHash   |-> blockIndex.blockHash,
     chunkHashes |-> blockIndex.chunkHashes,
     tag         |-> tag,
     payload     |-> payload]

StoredBlockHashes(blocks) == {b.blockHash : b \in blocks}

\* PutStoredBlock: a block is written once; a second put of the hash is a no-op
PutStoredBlocks(blocks, new) ==
    blocks \cup {b \in new : b.blockHash \notin StoredBlockHashes(blocks)}

\* the index the store answers get_existing_content from: the canonical index
\* blob and the blocks this store instance has put but not yet written back
VisibleIndex(index, added) == index \cup added

(***************************************************************************)
(* upSyncVersion                                                           *)
(***************************************************************************)
NoVersionIndex == CreateVersionIndex(EmptyTree, 0, 0)

NoUpInput ==
    [blobStoreURI |-> StoreURI(""), dir |-> EmptyTree, sourceIndexPath |-> "",
     targetFilePath |-> "", targetChunkSize |-> 0, targetBlockSize |-> 0,
     maxChunksPerBlock |-> 0, compressionAlgorithm |-> "", hashAlgorithm |-> "",
     regexOK |-> TRUE, minBlockUsagePercent |-> 0,
     versionLocalStoreIndexPath |-> "", getConfigPath |-> ""]

\* no block store made yet
NoStore == [kind |-> "none", blob |-> "", root |-> <<>>, err |-> ""]

UpIdle ==
    [pc |-> "idle", in |-> NoUpInput, store |-> NoStore, vindex |-> NoVersionIndex,
     compressionType |-> 0, existing |-> <<>>, missing |-> <<>>,
     added |-> {}, putBlocks |-> {}, lockGen |-> 0, lockIndex |-> {},
     attempts |-> 0, flushed |-> FALSE, wrote |-> {}, err |-> ""]

UpReturn(w, error) == [up EXCEPT ![w].pc = "done", ![w].err = error]

\* getFolderIndex: the index of the scanned folder, or the index read from
\* sourceIndexPath
getFolderIndex(dir, indexPath, targetChunkSize, hashId) ==
    IF indexPath = ""
    THEN [vindex |-> CreateVersionIndex(dir, hashId, targetChunkSize), err |-> ""]
    ELSE IF blobs[indexPath] = NoBlob
    THEN [vindex |-> NoVersionIndex, err |-> "ReadFromURI failed"]
    ELSE LET r == ReadVersionIndexFromBuffer(blobs[indexPath])
         IN  IF r.errno # 0
             THEN [vindex |-> NoVersionIndex, err |-> "ReadVersionIndexFromBuffer failed"]
             ELSE [vindex |-> r.vindex, err |-> ""]

\* WriteContent reads a chunk of a block from the source folder at the place
\* the version index gives for it and verifies its hash.
ChunkPlaces(vindex, c) ==
    UNION {{<<i, j>> : j \in {x \in 1..Len(vindex.assets[i].chunkIndexes) :
                                 AssetChunkHashes(vindex, i)[x] = c}} :
              i \in 1..Len(vindex.assets)}

SourceChunkOK(dir, vindex, pl, c) ==
    LET a == dir[vindex.assets[pl[1]].path]
    IN  /\ a.present
        /\ pl[2] <= Len(a.data)
        /\ ChunkHash(vindex.hashId, a.data[pl[2]]) = c

ReadSourceChunk(dir, vindex, c) ==
    LET pl == CHOOSE q \in ChunkPlaces(vindex, c) :
                  \A o \in ChunkPlaces(vindex, c) :
                      q[1] < o[1] \/ (q[1] = o[1] /\ q[2] <= o[2])
    IN  IF SourceChunkOK(dir, vindex, pl, c)
        THEN [ok |-> TRUE, data |-> dir[vindex.assets[pl[1]].path].data[pl[2]]]
        ELSE [ok |-> FALSE, data |-> 0]

BlockReadable(dir, vindex, blockIndex) ==
    \A c \in Range(blockIndex.chunkHashes) : ReadSourceChunk(dir, vindex, c).ok

AssembleBlock(dir, vindex, blockIndex, tag) ==
    StoredBlock(blockIndex, tag,
                [i \in 1..Len(blockIndex.chunkHashes) |->
                    ReadSourceChunk(dir, vindex, blockIndex.chunkHashes[i]).data])

\* main.go 286-349: filter, compression type, hash identifier, block store,
\* and the source index (scanned or read)
\* an upsync that takes any filter and any algorithm name
UpArgumentErrorNone(in, ct, hi) == ""

\* main.go 290-293, 308-315: the filter, the compression and the hash
\* algorithm are looked up first
UpArgumentError(in, ct, hi) ==
    IF ~in.regexOK THEN "MakeRegexPathFilter failed"
    ELSE IF ct.err # "" THEN ct.err
    ELSE IF hi.err # "" THEN hi.err
    ELSE ""

upSyncVersion_Setup(w, in) ==
    /\ up[w].pc = "idle"
    /\ ops' = ops + 1
    /\ \E scanErrno \in Errnos("upSyncVersion") :
         LET ct == getCompressionType(in.compressionAlgorithm)
             hi == getHashIdentifier(in.hashAlgorithm)
             st == createBlockStoreForURI(in.blobStoreURI)
             fi == getFolderIndex(in.dir, in.sourceIndexPath, in.targetChunkSize, hi.id)
             early == [UpIdle EXCEPT !.in = in]
             run == [early EXCEPT !.store = st]
             fail(e) == [run EXCEPT !.pc = "done", !.err = e]
         IN  up' = [up EXCEPT ![w] =
                 IF UpArgumentError(in, ct, hi) # ""
                 THEN [early EXCEPT !.pc = "done",
                                    !.err = UpArgumentError(in, ct, hi)]
                 ELSE IF st.err # "" THEN fail(st.err)
                 ELSE IF in.sourceIndexPath = "" /\ scanErrno # 0
                      THEN fail("GetFilesRecursively failed")
                 ELSE IF fi.err # "" THEN fail(fi.err)
                 ELSE [run EXCEPT !.pc = "getMissingContent",
                                  !.vindex = fi.vindex,
                                  !.compressionType = ct.type]]
    /\ UNCHANGED <<upFrame, uploaded, storeBlocks, storeIndex, storeGen, blobs>>

\* main.go 352: the store is asked for the chunks of the version
UpExistingStoreIndexOfNothing(r) ==
    GetExistingStoreIndex({}, GetChunkHashes(r.vindex), r.in.minBlockUsagePercent)

UpExistingStoreIndex(r) ==
    GetExistingStoreIndex(VisibleIndex(storeIndex, r.added),
                          GetChunkHashes(r.vindex), r.in.minBlockUsagePercent)

\* an upsync that packs every chunk of the version, stored or not
UpMissingStoreIndexOfAll(r, existing) ==
    CreateMissingContent(<<>>, r.vindex, r.in.targetBlockSize,
                         r.in.maxChunksPerBlock)

\* an upsync that packs one chunk per block
UpMissingStoreIndexOnePerBlock(r, existing) ==
    CreateMissingContent(existing, r.vindex, r.in.targetBlockSize, 1)

\* main.go 358-363
UpMissingStoreIndex(r, existing) ==
    CreateMissingContent(existing, r.vindex, r.in.targetBlockSize,
                         r.in.maxChunksPerBlock)

\* main.go 373: WriteContent is called only for a non-empty missing index
UpAfterMissingContent(missing) ==
    IF Len(missing) > 0 THEN "writeContent" ELSE "flush"

\* main.go 392-398: the flush follows WriteContent
UpAfterWriteContentSkipsFlush == "writeVersionIndex"

UpAfterWriteContent == "flush"

\* main.go 415: the version index is written after the flush
UpAfterFlush == "writeVersionIndex"

\* main.go 351-370: GetExistingStoreIndexSync and CreateMissingContent
upSyncVersion_GetMissingContent(w) ==
    /\ up[w].pc = "getMissingContent"
    /\ \E errno \in Errnos("upSyncVersion"), errno2 \in Errnos("upSyncVersion") :
         LET r == up[w]
             existing == UpExistingStoreIndex(r)
             missing == UpMissingStoreIndex(r, existing)
         IN  up' = IF errno # 0 THEN UpReturn(w, "GetExistingStoreIndexSync failed")
                   ELSE IF errno2 # 0 THEN UpReturn(w, "CreateMissingContent failed")
                   ELSE [up EXCEPT ![w].existing = existing,
                                   ![w].missing = missing,
                                   ![w].pc = UpAfterMissingContent(missing)]
    /\ UNCHANGED <<upFrame, uploaded, ops, storeBlocks, storeIndex, storeGen, blobs>>

\* main.go 372-390: WriteContent puts the missing blocks; on an error any part
\* of them may have been put
upSyncVersion_WriteContent(w) ==
    /\ up[w].pc = "writeContent"
    /\ LET r == up[w]
           all == Range(r.missing)
           writable == {b \in all : BlockReadable(r.in.dir, r.vindex, b)}
       IN  \E put \in SUBSET writable,
              errno \in Errnos("upSyncVersion") \cup (IF writable = all THEN {} ELSE {5}) :
             /\ (errno = 0) <=> (put = all)
             /\ storeBlocks' = PutStoredBlocks(storeBlocks,
                    {AssembleBlock(r.in.dir, r.vindex, b, r.compressionType) : b \in put})
             /\ up' = IF errno # 0
                      THEN [UpReturn(w, "WriteContent failed") EXCEPT
                                ![w].added = r.added \cup put,
                                ![w].putBlocks = put]
                      ELSE [up EXCEPT ![w].added = r.added \cup put,
                                      ![w].putBlocks = put,
                                      ![w].pc = UpAfterWriteContent]
    /\ UNCHANGED <<upFrame, uploaded, ops, storeIndex, storeGen, blobs>>

\* main.go 392-404, FlushStoresSync; the store reads the canonical index blob
\* and its generation ...
upSyncVersion_Flush(w) ==
    /\ up[w].pc = "flush"
    /\ \E errno \in Errnos("upSyncVersion") :
         up' = IF errno # 0 THEN UpReturn(w, "FlushStoresSync failed")
               ELSE IF up[w].added = {}
               THEN [up EXCEPT ![w].flushed = TRUE, ![w].pc = UpAfterFlush]
               ELSE [up EXCEPT ![w].lockGen = storeGen,
                               ![w].lockIndex = storeIndex,
                               ![w].pc = "flushWrite"]
    /\ UNCHANGED <<upFrame, uploaded, ops, storeBlocks, storeIndex, storeGen, blobs>>

\* ... and writes the merged index back: conditionally on the generation when
\* the blob backend supports locking, unconditionally otherwise
\* (s3BlobObject.LockWriteVersion locks nothing, s3BlobObject.Write always
\* reports the write as done)
WriteBackConflict(be, lockGen, gen) == SupportsLocking(be) /\ lockGen # gen

\* a write-back that retries whatever the number of attempts
WriteBackNeverExhausted(attempts) == FALSE

\* the attempt that met the conflict was the last of the MaxAttempts allowed
WriteBackExhausted(attempts) == attempts + 1 >= MaxAttempts

upSyncVersion_FlushWrite(w) ==
    /\ up[w].pc = "flushWrite"
    /\ LET r == up[w]
           be == createBlockStoreForURI(r.in.blobStoreURI).blob
       IN  IF WriteBackConflict(be, r.lockGen, storeGen)
           THEN /\ up' = IF WriteBackExhausted(r.attempts)
                         THEN UpReturn(w, "StoreIndexConflict")
                         ELSE [up EXCEPT ![w].attempts = r.attempts + 1,
                                         ![w].pc = "flush"]
                /\ UNCHANGED <<storeIndex, storeGen>>
           ELSE /\ storeIndex' = r.lockIndex \cup r.added
                /\ storeGen' = storeGen + 1
                /\ up' = [up EXCEPT ![w].added = {}, ![w].flushed = TRUE,
                                    ![w].pc = UpAfterFlush]
    /\ UNCHANGED <<upFrame, uploaded, ops, storeBlocks, blobs>>

UpAfterVersionIndex(in) ==
    IF in.versionLocalStoreIndexPath # "" THEN "writeStoreIndex"
    ELSE IF in.getConfigPath # "" THEN "writeGetConfig" ELSE "done"

\* an upsync that writes the index without its target chunk size
UpVersionIndexBufferOfScan(r) ==
    WriteVersionIndexToBuffer(CreateVersionIndex(r.in.dir, r.vindex.hashId, 0))

\* main.go 416: the buffer made of vindex
UpVersionIndexBuffer(r) == WriteVersionIndexToBuffer(r.vindex)

\* main.go 415-426: the version index blob
upSyncVersion_WriteVersionIndex(w) ==
    /\ up[w].pc = "writeVersionIndex"
    /\ \E errno \in Errnos("upSyncVersion") :
         IF errno # 0
         THEN /\ up' = UpReturn(w, "write of version index failed")
              /\ UNCHANGED <<blobs, uploaded>>
         ELSE /\ blobs' = [blobs EXCEPT ![up[w].in.targetFilePath] =
                              UpVersionIndexBuffer(up[w])]
              /\ uploaded' = [uploaded EXCEPT ![up[w].in.targetFilePath] = up[w].in.dir]
              /\ up' = [up EXCEPT ![w].wrote = @ \cup {"lvi"},
                                  ![w].pc = UpAfterVersionIndex(up[w].in)]
    /\ UNCHANGED <<upFrame, ops, storeBlocks, storeIndex, storeGen>>

UpLocalStoreIndexMissingOnly(existing, missing) == missing

\* main.go 429: versionLocalStoreIndex
UpLocalStoreIndex(existing, missing) == MergeStoreIndex(existing, missing)

\* main.go 428-445: the version-local store index
upSyncVersion_WriteStoreIndex(w) ==
    /\ up[w].pc = "writeStoreIndex"
    /\ \E errno \in Errnos("upSyncVersion") :
         IF errno # 0
         THEN /\ up' = UpReturn(w, "write of version local store index failed")
              /\ UNCHANGED blobs
         ELSE /\ blobs' = [blobs EXCEPT ![up[w].in.versionLocalStoreIndexPath] =
                              WriteStoreIndexToBuffer(
                                  UpLocalStoreIndex(up[w].existing, up[w].missing))]
              /\ up' = [up EXCEPT ![w].wrote = @ \cup {"lsi"},
                                  ![w].pc = IF up[w].in.getConfigPath # ""
                                            THEN "writeGetConfig" ELSE "done"]
    /\ UNCHANGED <<upFrame, uploaded, ops, storeBlocks, storeIndex, storeGen>>

\* main.go 447-482: the get-config
GetConfig(in) ==
    [kind |-> "json", storageURI |-> in.blobStoreURI, sourcePath |-> in.targetFilePath,
     versionLocalStoreIndexPath |-> in.versionLocalStoreIndexPath]

upSyncVersion_WriteGetConfig(w) ==
    /\ up[w].pc = "writeGetConfig"
    /\ \E errno \in Errnos("upSyncVersion") :
         IF errno # 0
         THEN /\ up' = UpReturn(w, "write of get config failed")
              /\ UNCHANGED blobs
         ELSE /\ blobs' = [blobs EXCEPT ![up[w].in.getConfigPath] = GetConfig(up[w].in)]
              /\ up' = [up EXCEPT ![w].wrote = @ \cup {"json"}, ![w].pc = "done"]
    /\ UNCHANGED <<upFrame, uploaded, ops, storeBlocks, storeIndex, storeGen>>

\* the call has returned: its locals are gone
upSyncVersion_Return(w) ==
    /\ up[w].pc = "done"
    /\ up' = [up EXCEPT ![w] = UpIdle]
    /\ UNCHANGED <<upFrame, uploaded, ops, storeBlocks, storeIndex, storeGen, blobs>>

upSyncVersion_Step(w) ==
    \/ upSyncVersion_GetMissingContent(w)
    \/ upSyncVersion_WriteContent(w)
    \/ upSyncVersion_Flush(w)
    \/ upSyncVersion_FlushWrite(w)
    \/ upSyncVersion_WriteVersionIndex(w)
    \/ upSyncVersion_Return(w)

(***************************************************************************)
(* downSyncVersion                                                         *)
(***************************************************************************)
NoDownInput ==
    [blobStoreURI |-> StoreURI(""), sourceFilePath |-> "", targetIndexPath |-> "",
     localCachePath |-> "", retainPermissions |-> FALSE, validate |-> FALSE,
     versionLocalStoreIndexPath |-> "", regexOK |-> TRUE]

NoVersionDiff ==
    [removed |-> {}, added |-> {}, modifiedContent |-> {}, modifiedPermissions |-> {}]

DownIdle ==
    [pc |-> "idle", in |-> NoDownInput, sourceVersionIndex |-> NoVersionIndex,
     targetVersionIndex |-> NoVersionIndex, versionDiff |-> NoVersionDiff,
     chunkHashes |-> <<>>, retargettedVersionStoreIndex |-> <<>>,
     targetBefore |-> EmptyTree, err |-> ""]

DownReturn(error) == [down EXCEPT !.pc = "done", !.err = error]

AssetOf(vindex, p) ==
    vindex.assets[CHOOSE i \in 1..Len(vindex.assets) : vindex.assets[i].path = p]

\* a diff that compares the content of the assets only
CreateVersionDiffByContent(targetVersionIndex, sourceVersionIndex) ==
    LET tp == AssetPaths(targetVersionIndex)
        sp == AssetPaths(sourceVersionIndex)
    IN  [removed |-> tp \ sp,
         added   |-> sp \ tp,
         modifiedContent |->
             {p \in tp \cap sp :
                 AssetOf(targetVersionIndex, p).hash # AssetOf(sourceVersionIndex, p).hash},
         modifiedPermissions |-> {}]

\* Longtail_CreateVersionDiff: the paths to remove, to add, to rewrite and to
\* give other permissions, by comparing the two indexes
CreateVersionDiff(targetVersionIndex, sourceVersionIndex) ==
    LET tp == AssetPaths(targetVersionIndex)
        sp == AssetPaths(sourceVersionIndex)
    IN  [removed |-> tp \ sp,
         added   |-> sp \ tp,
         modifiedContent |->
             {p \in tp \cap sp :
                 \/ AssetOf(targetVersionIndex, p).hash # AssetOf(sourceVersionIndex, p).hash
                 \/ AssetOf(targetVersionIndex, p).size # AssetOf(sourceVersionIndex, p).size},
         modifiedPermissions |->
             {p \in tp \cap sp :
                 AssetOf(targetVersionIndex, p).perm # AssetOf(sourceVersionIndex, p).perm}]

\* a downsync that asks for every chunk of the source version
GetRequiredChunkHashesOfAll(sourceVersionIndex, versionDiff) ==
    GetChunkHashes(sourceVersionIndex)

\* Longtail_GetRequiredChunkHashes: the chunks of the added and rewritten assets
GetRequiredChunkHashes(sourceVersionIndex, versionDiff) ==
    LET need == UNION {Range(AssetChunkHashes(sourceVersionIndex, i)) :
                          i \in {k \in 1..Len(sourceVersionIndex.assets) :
                                    sourceVersionIndex.assets[k].path
                                        \in versionDiff.added \cup versionDiff.modifiedContent}}
    IN  SelectSeq(GetChunkHashes(sourceVersionIndex), LAMBDA c : c \in need)

\* the stored blocks that hold a chunk, found through a store index
ChunkBlocks(index, blocks, c) ==
    {b \in blocks :
        \E k \in 1..Len(index) :
            /\ index[k].blockHash = b.blockHash
            /\ c \in Range(index[k].chunkHashes)
            /\ c \in Range(b.chunkHashes)}

ReadChunk(index, blocks, c) ==
    LET b == CHOOSE x \in ChunkBlocks(index, blocks, c) : TRUE
    IN  b.payload[IndexOf(b.chunkHashes, c)]

\* Longtail_ChangeVersion for one path of the diff: what the file becomes
ChangedAsset(tree, p, index, blocks, sourceVersionIndex, versionDiff, retainPermissions) ==
    LET a == AssetOf(sourceVersionIndex, p)
        chunks == [j \in 1..Len(a.chunkIndexes) |->
                      sourceVersionIndex.chunkHashes[a.chunkIndexes[j]]]
    IN  IF p \in versionDiff.removed THEN NoAsset
        ELSE IF p \in versionDiff.added \cup versionDiff.modifiedContent
        THEN [present |-> TRUE,
              data |-> [j \in 1..Len(chunks) |-> ReadChunk(index, blocks, chunks[j])],
              perm |-> IF retainPermissions THEN a.perm
                       ELSE IF tree[p].present THEN tree[p].perm ELSE 420]
        ELSE IF retainPermissions /\ tree[p].present
        THEN [tree[p] EXCEPT !.perm = a.perm]
        ELSE tree[p]

DiffPaths(versionDiff) ==
    versionDiff.removed \cup versionDiff.added
        \cup versionDiff.modifiedContent \cup versionDiff.modifiedPermissions

\* main.go 563-698: the source index, the target index (scanned, or read from
\* targetIndexPath), the store, the diff and the blocks it needs
downSyncVersion_Setup(in) ==
    /\ down.pc = "idle"
    /\ ops' = ops + 1
    /\ \E scanErrno \in Errnos("downSyncVersion"), errno \in Errnos("downSyncVersion") :
         LET rd == ReadFromURI(in.sourceFilePath)
             vi == ReadVersionIndexFromBuffer(rd.buffer)
             hashIdentifier == vi.vindex.hashId
             targetChunkSize == vi.vindex.targetChunkSize
             ti == getFolderIndex(target, in.targetIndexPath, targetChunkSize,
                                  hashIdentifier)
             st == createBlockStoreForURI(in.blobStoreURI)
             versionDiff == CreateVersionDiff(ti.vindex, vi.vindex)
             chunkHashes == GetRequiredChunkHashes(vi.vindex, versionDiff)
             run == [DownIdle EXCEPT !.in = in, !.targetBefore = target]
             fail(e) == [run EXCEPT !.pc = "done", !.err = e]
         IN  down' =
                 IF ~in.regexOK THEN fail("MakeRegexPathFilter failed")
                 ELSE IF rd.err # "" THEN fail(rd.err)
                 ELSE IF vi.errno # 0 THEN fail("ReadVersionIndexFromBuffer failed")
                 ELSE IF st.err # "" THEN fail(st.err)
                 ELSE IF in.targetIndexPath = "" /\ scanErrno # 0
                      THEN fail("GetFilesRecursively failed")
                 ELSE IF ti.err # "" THEN fail(ti.err)
                 ELSE IF errno # 0 THEN fail("GetExistingStoreIndexSync failed")
                 ELSE [run EXCEPT
                          !.pc = "changeVersion",
                          !.sourceVersionIndex = vi.vindex,
                          !.targetVersionIndex = ti.vindex,
                          !.versionDiff = versionDiff,
                          !.chunkHashes = chunkHashes,
                          !.retargettedVersionStoreIndex =
                              GetExistingStoreIndex(storeIndex, chunkHashes, 0)]
    /\ UNCHANGED <<backend, handles, clone, targetRemote, target, faults, inspectVars, pipe, fn, uploaded, up, val, pr,
                   storeBlocks, storeIndex, storeGen, blobs>>

\* main.go 717: retainPermissions is handed to ChangeVersion
DownRetainPermissionsDropped(in) == FALSE

DownRetainPermissions(in) == in.retainPermissions

\* a downsync that goes on after a failed ChangeVersion
DownChangeVersionFailedIgnored(errno) == FALSE

\* main.go 718-720
DownChangeVersionFailed(errno) == errno # 0

\* main.go 704-720: ChangeVersion rewrites the paths of the diff; it fails
\* when a chunk it needs is in no block it can read, and a failed call has
\* rewritten any part of the paths it could
downSyncVersion_ChangeVersion ==
    /\ down.pc = "changeVersion"
    /\ LET paths == DiffPaths(down.versionDiff)
           index == down.retargettedVersionStoreIndex
           readable ==
               \A c \in Range(down.chunkHashes) : ChunkBlocks(index, storeBlocks, c) # {}
           doable == IF readable THEN paths ELSE down.versionDiff.removed
       IN  \E done \in SUBSET doable,
              errno \in Errnos("downSyncVersion") \cup (IF readable THEN {} ELSE {5}) :
             /\ (errno = 0) <=> (readable /\ done = paths)
             /\ target' = [p \in Paths |->
                    IF p \in done
                    THEN ChangedAsset(target, p, index, storeBlocks,
                                      down.sourceVersionIndex, down.versionDiff,
                                      DownRetainPermissions(down.in))
                    ELSE target[p]]
             /\ down' = IF DownChangeVersionFailed(errno)
                        THEN DownReturn("ChangeVersion failed")
                        ELSE [down EXCEPT !.pc = "flush"]
    /\ UNCHANGED <<backend, handles, clone, targetRemote, faults, inspectVars, pipe, fn, uploaded, up, val, pr, ops,
                   storeBlocks, storeIndex, storeGen, blobs>>

\* main.go 768: the target is validated when asked
DownAfterFlush(validate) == IF validate THEN "validate" ELSE "done"

\* main.go 727-738
downSyncVersion_Flush ==
    /\ down.pc = "flush"
    /\ \E errno \in Errnos("downSyncVersion") :
         down' = IF errno # 0 THEN DownReturn("FlushStoresSync failed")
                 ELSE [down EXCEPT !.pc = DownAfterFlush(down.in.validate)]
    /\ UNCHANGED <<backend, handles, clone, targetRemote, target, faults, inspectVars, pipe, fn, uploaded, up, val, pr, ops,
                   storeBlocks, storeIndex, storeGen, blobs>>

\* a validation that compares the asset counts only
ValidateTargetByCount(validateVersionIndex, sourceVersionIndex, retainPermissions) ==
    IF Len(validateVersionIndex.assets) # Len(sourceVersionIndex.assets)
    THEN "downSyncVersion: failed validation: asset count mismatch"
    ELSE ""

\* main.go 798-838: asset count, then per scanned asset the path, the size,
\* the hash and, with retainPermissions, the permissions
ValidateTarget(validateVersionIndex, sourceVersionIndex, retainPermissions) ==
    IF Len(validateVersionIndex.assets) # Len(sourceVersionIndex.assets)
    THEN "downSyncVersion: failed validation: asset count mismatch"
    ELSE IF \E i \in 1..Len(validateVersionIndex.assets) :
               LET v == validateVersionIndex.assets[i]
               IN  \/ v.path \notin AssetPaths(sourceVersionIndex)
                   \/ AssetOf(sourceVersionIndex, v.path).size # v.size
                   \/ AssetOf(sourceVersionIndex, v.path).hash # v.hash
                   \/ /\ retainPermissions
                      /\ AssetOf(sourceVersionIndex, v.path).perm # v.perm
    THEN "downSyncVersion: failed validation"
    ELSE ""

\* main.go 768-841
downSyncVersion_Validate ==
    /\ down.pc = "validate"
    /\ \E errno \in Errnos("downSyncVersion") :
         LET validateVersionIndex ==
                 CreateVersionIndex(target, down.sourceVersionIndex.hashId,
                                    down.sourceVersionIndex.targetChunkSize)
         IN  down' = IF errno # 0 THEN DownReturn("GetFilesRecursively failed")
                     ELSE DownReturn(ValidateTarget(validateVersionIndex,
                                                    down.sourceVersionIndex,
                                                    down.in.retainPermissions))
    /\ UNCHANGED <<backend, handles, clone, targetRemote, target, faults, inspectVars, pipe, fn, uploaded, up, val, pr, ops,
                   storeBlocks, storeIndex, storeGen, blobs>>

downSyncVersion_Return ==
    /\ down.pc = "done"
    /\ down' = DownIdle
    /\ UNCHANGED <<backend, handles, clone, targetRemote, target, faults, inspectVars, pipe, fn, uploaded, up, val, pr, ops,
                   storeBlocks, storeIndex, storeGen, blobs>>

downSyncVersion_Step ==
    \/ downSyncVersion_ChangeVersion
    \/ downSyncVersion_Flush
    \/ downSyncVersion_Validate
    \/ downSyncVersion_Return

(***************************************************************************)
(* validateVersion                                                         *)
(***************************************************************************)
NoValidateInput == [blobStoreURI |-> StoreURI(""), versionIndexPath |-> ""]

ValidateIdle ==
    [pc |-> "idle", in |-> NoValidateInput, vindex |-> NoVersionIndex,
     remoteStoreIndex |-> <<>>, err |-> ""]

\* main.go 903-906: a non-zero errno of ValidateStore is the error returned
ValidateStoreResultIgnored(errno) == ""

ValidateStoreResult(errno) == IF errno # 0 THEN "ValidateStore failed" ELSE ""

\* main.go 859-911
validateVersion_Run(in) ==
    /\ val.pc = "idle"
    /\ ops' = ops + 1
    /\ \E errno \in Errnos("validateVersion") :
         LET st == createBlockStoreForURI(in.blobStoreURI)
             rd == ReadFromURI(in.versionIndexPath)
             vi == ReadVersionIndexFromBuffer(rd.buffer)
             si == GetExistingStoreIndex(storeIndex, GetChunkHashes(vi.vindex), 0)
             run == [ValidateIdle EXCEPT !.in = in, !.pc = "done"]
         IN  val' = IF st.err # "" THEN [run EXCEPT !.err = st.err]
                    ELSE IF rd.err # "" THEN [run EXCEPT !.err = rd.err]
                    ELSE IF vi.errno # 0
                         THEN [run EXCEPT !.err = "ReadVersionIndexFromBuffer failed"]
                    ELSE IF errno # 0
                         THEN [run EXCEPT !.vindex = vi.vindex,
                                          !.err = "GetExistingStoreIndexSync failed"]
                    ELSE [run EXCEPT !.vindex = vi.vindex,
                                     !.remoteStoreIndex = si,
                                     !.err = ValidateStoreResult(
                                                 ValidateStore(si, vi.vindex))]
    /\ UNCHANGED <<backend, handles, clone, targetRemote, target, faults, inspectVars, pipe, fn, uploaded, up, pr, down,
                   storeBlocks, storeIndex, storeGen, blobs>>

validateVersion_Return ==
    /\ val.pc = "done"
    /\ val' = ValidateIdle
    /\ UNCHANGED <<backend, handles, clone, targetRemote, target, faults, inspectVars, pipe, fn, uploaded, up, pr, down, ops,
                   storeBlocks, storeIndex, storeGen, blobs>>

(***************************************************************************)
(* showVersionIndex (print-version-index)                                  *)
(***************************************************************************)
RECURSIVE SumSeq(_)
SumSeq(s) == IF s = <<>> THEN 0 ELSE Head(s) + SumSeq(Tail(s))

\* main.go 846-857
hashIdentifierToString(hashIdentifier) ==
    IF hashIdentifier = hashIdentifierMap.blake2 THEN "blake2"
    ELSE IF hashIdentifier = hashIdentifierMap.blake3 THEN "blake3"
    ELSE IF hashIdentifier = hashIdentifierMap.meow THEN "meow"
    ELSE ToString(hashIdentifier)

\* every chunk of the model is one data unit long
GetChunkSizes(vindex) == [i \in 1..Len(vindex.chunkHashes) |-> 1]

GetAssetSizes(vindex) == [i \in 1..Len(vindex.assets) |-> vindex.assets[i].size]

NoShowInput == [versionIndexPath |-> "", compact |-> FALSE]

NoReport ==
    [path |-> "", version |-> 0, hashIdentifier |-> "", targetChunkSize |-> 0,
     assetCount |-> 0, totalAssetSize |-> 0, chunkCount |-> 0, totalChunkSize |-> 0,
     averageChunkSize |-> 0, smallestChunkSize |-> 0, largestChunkSize |-> 0]

ShowIdle == [pc |-> "idle", in |-> NoShowInput, report |-> NoReport, err |-> ""]

\* main.go 931-989: the numbers printed; the compact form starts with the path
ShowVersionIndexReport(in, versionIndex) ==
    LET chunkSizes == GetChunkSizes(versionIndex)
        totalChunkSize == SumSeq(chunkSizes)
    IN  [path              |-> IF in.compact THEN in.versionIndexPath ELSE "",
         version           |-> versionIndex.version,
         hashIdentifier    |-> hashIdentifierToString(versionIndex.hashId),
         targetChunkSize   |-> versionIndex.targetChunkSize,
         assetCount        |-> Len(versionIndex.assets),
         totalAssetSize    |-> SumSeq(GetAssetSizes(versionIndex)),
         chunkCount        |-> Len(versionIndex.chunkHashes),
         totalChunkSize    |-> totalChunkSize,
         averageChunkSize  |-> IF Len(chunkSizes) > 0
                               THEN totalChunkSize \div Len(chunkSizes) ELSE 0,
         smallestChunkSize |-> IF Len(chunkSizes) > 0
                               THEN CHOOSE m \in Range(chunkSizes) :
                                        \A x \in Range(chunkSizes) : m <= x
                               ELSE 0,
         largestChunkSize  |-> IF Len(chunkSizes) > 0
                               THEN CHOOSE m \in Range(chunkSizes) :
                                        \A x \in Range(chunkSizes) : m >= x
                               ELSE 0]

\* main.go 913-994
showVersionIndex_Run(in) ==
    /\ show.pc = "idle"
    /\ ops' = ops + 1
    /\ LET rd == ReadFromURI(in.versionIndexPath)
           vi == ReadVersionIndexFromBuffer(rd.buffer)
           run == [ShowIdle EXCEPT !.in = in, !.pc = "done"]
       IN  show' = IF rd.err # "" THEN [run EXCEPT !.err = rd.err]
                   ELSE IF vi.errno # 0
                        THEN [run EXCEPT !.err = "ReadVersionIndexFromBuffer failed"]
                   ELSE [run EXCEPT !.report = ShowVersionIndexReport(in, vi.vindex)]
    /\ UNCHANGED <<backend, handles, clone, targetRemote, target, faults, uploaded, up, val, pr, down, stats,
                   cacheLocal, cachePending, pipe, fn, storeBlocks, storeIndex,
                   storeGen, blobs>>

showVersionIndex_Return ==
    /\ show.pc = "done"
    /\ show' = ShowIdle
    /\ UNCHANGED <<backend, handles, clone, targetRemote, target, faults, uploaded, up, val, pr, down, stats,
                   cacheLocal, cachePending, pipe, fn, storeBlocks, storeIndex,
                   storeGen, blobs, ops>>

(***************************************************************************)
(* Block stores read by the commands: the store itself and the cache block *)
(* store over a local store and the store.                                 *)
(***************************************************************************)
NoStoredBlock == StoredBlock(BlockIndex(<<>>), 0, <<>>)

\* get_stored_block of the remote or file-system block store
GetStoredBlock(blocks, blockHash) ==
    IF blockHash \in StoredBlockHashes(blocks)
    THEN [errno |-> 0, storedBlock |-> CHOOSE b \in blocks : b.blockHash = blockHash]
    ELSE [errno |-> 2, storedBlock |-> NoStoredBlock]

\* a cache block store that asks the remote store first
CacheGetStoredBlockRemoteFirst(local, remote, blockHash) ==
    LET l == GetStoredBlock(local, blockHash)
        r == GetStoredBlock(remote, blockHash)
    IN  IF r.errno = 0
        THEN [errno |-> 0, storedBlock |-> r.storedBlock, from |-> "remote"]
        ELSE [errno |-> l.errno, storedBlock |-> l.storedBlock, from |-> "local"]

\* get_stored_block of the cache block store: the local store first, the
\* remote store on a miss
CacheGetStoredBlock(local, remote, blockHash) ==
    LET l == GetStoredBlock(local, blockHash)
        r == GetStoredBlock(remote, blockHash)
    IN  IF l.errno = 0
        THEN [errno |-> 0, storedBlock |-> l.storedBlock, from |-> "local"]
        ELSE [errno |-> r.errno, storedBlock |-> r.storedBlock, from |-> "remote"]

\* the cache block store puts a block it got from the remote store into its
\* local store, some time after it has answered the get
CacheBlockStore_Populate ==
    /\ \E b \in cachePending :
         /\ cacheLocal' = PutStoredBlocks(cacheLocal, {b})
         /\ cachePending' = cachePending \ {b}
    /\ UNCHANGED <<backend, handles, clone, targetRemote, target, faults, uploaded, up, val, pr, down, show, stats,
                   pipe, fn, storeBlocks, storeIndex, storeGen, blobs, ops>>

(***************************************************************************)
(* stats (print-version-usage)                                             *)
(***************************************************************************)
NoStatsInput ==
    [blobStoreURI |-> StoreURI(""), versionIndexPath |-> "", localCachePath |-> "",
     numWorkerCount |-> 1]

NoLookup == [c \in {} |-> 0]

\* a uint32 as its two 16-bit halves; of a negative number, the value the
\* unsigned subtraction and the conversion uint32(...) leave
Uint32(x) == [hi |-> (x \div 65536) % 65536, lo |-> x % 65536]

StatsIdle ==
    [pc |-> "idle", in |-> NoStatsInput, versionIndex |-> NoVersionIndex,
     existingStoreIndex |-> <<>>, blockHashes |-> <<>>, i |-> 0,
     blockLookup |-> NoLookup, blockChunkCount |-> 0, fromLocal |-> {},
     fromRemote |-> {}, blockUsage |-> 0, assetFragmentCount |-> 0,
     assetFragmentation |-> Uint32(0), err |-> ""]

StatsReturn(error) == [stats EXCEPT !.pc = "done", !.err = error]

\* a stats that reads the local store of the cache only
StatsGetStoredBlockLocalOnly(in, blockHash) ==
    IF in.localCachePath = ""
    THEN [errno       |-> GetStoredBlock(storeBlocks, blockHash).errno,
          storedBlock |-> GetStoredBlock(storeBlocks, blockHash).storedBlock,
          from        |-> "remote"]
    ELSE [errno       |-> GetStoredBlock(cacheLocal, blockHash).errno,
          storedBlock |-> GetStoredBlock(cacheLocal, blockHash).storedBlock,
          from        |-> "local"]

\* main.go 1457-1459: with a cache path the blocks are read through a cache
\* block store, without one from the store itself
StatsGetStoredBlock(in, blockHash) ==
    IF in.localCachePath = ""
    THEN [errno       |-> GetStoredBlock(storeBlocks, blockHash).errno,
          storedBlock |-> GetStoredBlock(storeBlocks, blockHash).storedBlock,
          from        |-> "remote"]
    ELSE CacheGetStoredBlock(cacheLocal, storeBlocks, blockHash)

\* main.go 1514: the error returned is made of errno, which is the errno of
\* GetExistingStoreIndexSync and 0 here, not of the Err of the completion
StatsFetchError(errno) == IF errno # 0 THEN "GetStoredBlock failed" ELSE ""

\* main.go 1425-1497: the stores, the version index, the store index of its
\* chunks and the block hashes to fetch
stats_Setup(in) ==
    /\ stats.pc = "idle"
    /\ ops' = ops + 1
    /\ \E errno \in Errnos("stats") :
         LET store == createBlockStoreForURI(in.blobStoreURI)
             rd == ReadFromURI(in.versionIndexPath)
             vi == ReadVersionIndexFromBuffer(rd.buffer)
             si == GetExistingStoreIndex(storeIndex, GetChunkHashes(vi.vindex), 0)
             run == [StatsIdle EXCEPT !.in = in]
             fail(e) == [run EXCEPT !.pc = "done", !.err = e]
         IN  stats' = IF store.err # "" THEN fail(store.err)
                      ELSE IF rd.err # "" THEN fail(rd.err)
                      ELSE IF vi.errno # 0 THEN fail("ReadVersionIndexFromBuffer failed")
                      ELSE IF errno # 0
                           THEN [fail("GetExistingStoreIndexSync failed")
                                     EXCEPT !.versionIndex = vi.vindex]
                      ELSE [run EXCEPT !.versionIndex = vi.vindex,
                                       !.existingStoreIndex = si,
                                       !.blockHashes = GetBlockHashes(si),
                                       !.pc = IF Len(si) > 0 THEN "fetch" ELSE "report"]
    /\ UNCHANGED <<backend, handles, clone, targetRemote, target, faults, uploaded, up, val, pr, down, show,
                   cacheLocal, cachePending, pipe, fn, storeBlocks, storeIndex,
                   storeGen, blobs>>

\* main.go 1499-1527: one batch of at most numWorkerCount blocks is fetched by
\* as many goroutines and then read in order
stats_FetchBatch ==
    /\ stats.pc = "fetch"
    /\ LET r == stats
           batchSize == Min(Len(r.blockHashes) - r.i, r.in.numWorkerCount)
           completions == [offset \in 1..batchSize |->
                              StatsGetStoredBlock(r.in, r.blockHashes[r.i + offset])]
           failed == {offset \in 1..batchSize : completions[offset].errno # 0}
           read == IF failed = {} THEN batchSize
                   ELSE (CHOOSE o \in failed : \A x \in failed : o <= x) - 1
           chunksOf(offset) == completions[offset].storedBlock.chunkHashes
           new == UNION {Range(chunksOf(offset)) : offset \in 1..read}
           lookup == [c \in DOMAIN r.blockLookup \cup new |->
                         IF c \in new
                         THEN r.blockHashes[r.i + (CHOOSE o \in 1..read :
                                  /\ c \in Range(chunksOf(o))
                                  /\ \A x \in 1..read :
                                        c \in Range(chunksOf(x)) => x <= o)]
                         ELSE r.blockLookup[c]]
           got == [r EXCEPT
                      !.blockLookup = lookup,
                      !.blockChunkCount =
                          @ + SumSeq([offset \in 1..read |-> Len(chunksOf(offset))]),
                      !.fromLocal = @ \cup {r.blockHashes[r.i + o] : o \in
                          {x \in 1..batchSize : /\ completions[x].errno = 0
                                                /\ completions[x].from = "local"}},
                      !.fromRemote = @ \cup {r.blockHashes[r.i + o] : o \in
                          {x \in 1..batchSize : /\ completions[x].errno = 0
                                                /\ completions[x].from = "remote"}}]
       IN  /\ stats' = IF failed # {}
                       THEN [got EXCEPT !.pc = "done", !.err = StatsFetchError(0)]
                       ELSE [got EXCEPT !.i = r.i + batchSize,
                                        !.pc = IF r.i + batchSize < Len(r.blockHashes)
                                               THEN "fetch" ELSE "report"]
           /\ cachePending' =
                  IF r.in.localCachePath = "" THEN cachePending
                  ELSE cachePending \cup
                           {completions[o].storedBlock : o \in
                               {x \in 1..batchSize : /\ completions[x].errno = 0
                                                     /\ completions[x].from = "remote"}}
    /\ UNCHANGED <<backend, handles, clone, targetRemote, target, faults, uploaded, up, val, pr, down, show,
                   cacheLocal, pipe, fn, storeBlocks, storeIndex, storeGen, blobs, ops>>

\* main.go 1534-1557: a fragment is a run of chunks of an asset in one block;
\* a chunk that is in no fetched block has block 0
AssetFragments(versionIndex, blockLookup, a) ==
    LET chunks == AssetChunkHashes(versionIndex, a)
        blockOf(j) == IF chunks[j] \in DOMAIN blockLookup
                      THEN blockLookup[chunks[j]] ELSE 0
    IN  Cardinality({j \in 1..Len(chunks) : j = 1 \/ blockOf(j) # blockOf(j - 1)})

\* main.go 1563-1566: uint32((100*assetFragmentCount)/uint64(assetCount) - 100)
AssetFragmentation(assetFragmentCount, assetCount) ==
    IF assetCount > 0
    THEN Uint32((100 * assetFragmentCount) \div assetCount - 100)
    ELSE Uint32(0)

\* main.go 1529-1586: the statistics, the flush of the stores and the return
stats_Finish ==
    /\ stats.pc = "report"
    /\ \E errno \in Errnos("stats") :
         LET r == stats
             chunkCount == SumSeq([k \in 1..Len(r.existingStoreIndex) |->
                                      Len(r.existingStoreIndex[k].chunkHashes)])
             fragments == SumSeq([a \in 1..Len(r.versionIndex.assets) |->
                                     AssetFragments(r.versionIndex, r.blockLookup, a)])
             out == [r EXCEPT
                        !.blockUsage = IF r.blockChunkCount > 0
                                       THEN (100 * chunkCount) \div r.blockChunkCount
                                       ELSE 100,
                        !.assetFragmentCount = fragments,
                        !.assetFragmentation =
                            AssetFragmentation(fragments, Len(r.versionIndex.assets)),
                        !.pc = "done"]
         IN  /\ stats' = IF errno # 0 THEN [out EXCEPT !.err = "FlushStoresSync failed"]
                         ELSE out
             /\ cacheLocal' = IF errno # 0 THEN cacheLocal
                              ELSE PutStoredBlocks(cacheLocal, cachePending)
             /\ cachePending' = IF errno # 0 THEN cachePending ELSE {}
    /\ UNCHANGED <<backend, handles, clone, targetRemote, target, faults, uploaded, up, val, pr, down, show,
                   pipe, fn, storeBlocks, storeIndex, storeGen, blobs, ops>>

stats_Return ==
    /\ stats.pc = "done"
    /\ stats' = StatsIdle
    /\ UNCHANGED <<backend, handles, clone, targetRemote, target, faults, uploaded, up, val, pr, down, show,
                   cacheLocal, cachePending, pipe, fn, storeBlocks, storeIndex,
                   storeGen, blobs, ops>>

stats_Step ==
    \/ stats_FetchBatch
    \/ stats_Finish
    \/ stats_Return

(***************************************************************************)
(* The block store pipeline of downSyncVersion (main.go 644-661): the      *)
(* share block store over the LRU block store over the compress block      *)
(* store over the cache block store (with a cache path) or the store.      *)
(* The jobs of ChangeVersion ask the share store for the blocks of their    *)
(* assets.  The compress store changes no block hash and is left out.      *)
(***************************************************************************)
LRUCapacity == 32

MaxBetween == 33        \* blocks a job asks for between two uses of one block
MaxPlanLen == 2         \* blocks a job of the small plans asks for

PipeJobs == {"j1", "j2"}

PipeBlockHashes == 1..(MaxBetween + 1)

\* the block of one chunk with the hash h; its block hash is h
PipeBlock(h) == StoredBlock(BlockIndex(<<h>>), 0, <<ChunkData(h)>>)

NoResult == [errno |-> 0, blockHash |-> 0, from |-> ""]

PipeIdle ==
    [pc        |-> "idle",
     cache     |-> FALSE,                            \* localCachePath # ""
     plan      |-> [j \in PipeJobs |-> <<>>],          \* blocks still to ask for
     wait      |-> [j \in PipeJobs |-> 0],             \* block a job waits for
     last      |-> [j \in PipeJobs |-> NoResult],      \* last answer to a job
     promises  |-> {},                                 \* share store: hashes in flight
     inflight  |-> [h \in PipeBlockHashes |-> 0],      \* gets in flight below the share store
     lru       |-> <<>>,                               \* LRU store, least recent first
     served    |-> <<>>,                               \* blocks the LRU store handed out
     below     |-> <<>>,                               \* gets issued below the LRU store
     remote    |-> <<>>,                               \* gets issued to the remote store
     answered  |-> <<>>,                               \* the answers of the bottom store
     added     |-> {},                                 \* blocks put through the pipeline
     existing  |-> <<>>,                               \* last get_existing_content answer
     asked     |-> <<>>,                               \* and the chunk hashes asked for
     err       |-> ""]

pipeFrame == <<backend, handles, clone, targetRemote, target, faults, uploaded, up, val, pr, down, show, stats, fn,
               storeIndex, storeGen, blobs, ops>>

\* share block store: a get of a hash with a promise in flight attaches to it
ShareNeverAttaches(promises, blockHash) == FALSE

ShareAttaches(promises, blockHash) == blockHash \in promises

\* an LRU store that keeps nothing
LRUTouchForgets(lru, blockHash, capacity) == <<>>

\* LRU block store: the block becomes the most recently used one, the least
\* recently used one is evicted when the store is full
LRUTouch(lru, blockHash, capacity) ==
    LET rest == SelectSeq(lru, LAMBDA x : x # blockHash)
        kept == IF Len(rest) >= capacity
                THEN SubSeq(rest, Len(rest) - capacity + 2, Len(rest)) ELSE rest
    IN  Append(kept, blockHash)

\* main.go 644-656: the store under the compress store
PipeGetStoredBlock(cache, blockHash) ==
    IF cache THEN CacheGetStoredBlock(cacheLocal, storeBlocks, blockHash)
    ELSE [errno       |-> GetStoredBlock(storeBlocks, blockHash).errno,
          storedBlock |-> GetStoredBlock(storeBlocks, blockHash).storedBlock,
          from        |-> "remote"]

\* main.go 706-717: ChangeVersion starts its jobs
ChangeVersion_Start(cache, plan) ==
    /\ pipe.pc = "idle"
    /\ pipe' = [pipe EXCEPT !.pc = "running", !.cache = cache, !.plan = plan]
    /\ UNCHANGED <<pipeFrame, storeBlocks, cacheLocal, cachePending>>

\* a job asks the share store for the next block of its plan
ShareBlockStore_GetStoredBlock(j) ==
    /\ pipe.pc = "running"
    /\ pipe.wait[j] = 0
    /\ pipe.plan[j] # <<>>
    /\ LET h == Head(pipe.plan[j])
           asked == [pipe EXCEPT !.plan[j] = Tail(pipe.plan[j])]
       IN  pipe' =
             IF ShareAttaches(pipe.promises, h)
             THEN [asked EXCEPT !.wait[j] = h]
             ELSE IF h \in Range(pipe.lru)
             THEN [asked EXCEPT !.lru = LRUTouch(pipe.lru, h, LRUCapacity),
                                !.served = Append(@, h),
                                !.last[j] = [errno |-> 0, blockHash |-> h, from |-> "lru"]]
             ELSE [asked EXCEPT !.wait[j] = h,
                                !.promises = @ \cup {h},
                                !.inflight[h] = @ + 1,
                                !.below = Append(@, h)]
    /\ UNCHANGED <<pipeFrame, storeBlocks, cacheLocal, cachePending>>

\* the store under the LRU store answers a get: the LRU store keeps the
\* block, the share store completes every waiter of the hash
LRUBlockStore_OnComplete(h) ==
    /\ pipe.pc = "running"
    /\ pipe.inflight[h] > 0
    /\ LET r == PipeGetStoredBlock(pipe.cache, h)
           result == [errno |-> r.errno, blockHash |-> r.storedBlock.blockHash,
                      from |-> r.from]
           waiters == {j \in PipeJobs : pipe.wait[j] = h}
       IN  /\ pipe' = [pipe EXCEPT
                  !.inflight[h] = @ - 1,
                  !.promises = @ \ {h},
                  !.lru = IF r.errno = 0 THEN LRUTouch(@, h, LRUCapacity) ELSE @,
                  !.served = IF r.errno = 0 THEN Append(@, h) ELSE @,
                  !.remote = IF r.from = "remote" THEN Append(@, h) ELSE @,
                  !.answered = Append(@, [blockHash |-> h, from |-> r.from,
                                          errno |-> r.errno,
                                          local |-> h \in StoredBlockHashes(cacheLocal)]),
                  !.wait = [j \in PipeJobs |-> IF j \in waiters THEN 0 ELSE @[j]],
                  !.last = [j \in PipeJobs |-> IF j \in waiters THEN result ELSE @[j]],
                  !.plan = [j \in PipeJobs |->
                               IF j \in waiters /\ r.errno # 0 THEN <<>> ELSE @[j]],
                  !.err = IF r.errno # 0 THEN "GetStoredBlock failed" ELSE @]
           /\ cachePending' = IF pipe.cache /\ r.errno = 0 /\ r.from = "remote"
                              THEN cachePending \cup {r.storedBlock} ELSE cachePending
    /\ UNCHANGED <<pipeFrame, storeBlocks, cacheLocal>>

\* a put through the pipeline: the cache store writes to its local store and
\* to the remote store, without a cache store the put goes to the store
CacheBlockStore_PutStoredBlock(block) ==
    /\ pipe.pc = "running"
    /\ block.blockHash \notin StoredBlockHashes(storeBlocks)
    /\ storeBlocks' = PutStoredBlocks(storeBlocks, {block})
    /\ cacheLocal' = IF pipe.cache THEN PutStoredBlocks(cacheLocal, {block}) ELSE cacheLocal
    /\ pipe' = [pipe EXCEPT !.added = @ \cup {BlockIndex(block.chunkHashes)}]
    /\ UNCHANGED <<pipeFrame, cachePending>>

\* get_existing_content through the pipeline: every layer passes it down, the
\* cache store to the remote store
CacheBlockStore_GetExistingContent(chunkHashes) ==
    /\ pipe.pc = "running"
    /\ pipe' = [pipe EXCEPT
           !.asked = chunkHashes,
           !.existing = GetExistingStoreIndex(VisibleIndex(storeIndex, pipe.added),
                                              chunkHashes, 0)]
    /\ UNCHANGED <<pipeFrame, storeBlocks, cacheLocal, cachePending>>

\* the jobs have asked for all their blocks and got their answers
ChangeVersion_Done ==
    /\ pipe.pc = "running"
    /\ \A j \in PipeJobs : pipe.plan[j] = <<>> /\ pipe.wait[j] = 0
    /\ \A h \in PipeBlockHashes : pipe.inflight[h] = 0
    /\ pipe' = [pipe EXCEPT !.pc = "done"]
    /\ UNCHANGED <<pipeFrame, storeBlocks, cacheLocal, cachePending>>

(***************************************************************************)
(* Calls of the store index operations.                                    *)
(***************************************************************************)
NoCall ==
    [op |-> "none", pc |-> "idle", a |-> <<>>, b |-> <<>>, needed |-> NoVersionIndex,
     targetBlockSize |-> 0, maxChunksPerBlock |-> 0, result |-> <<>>, swapped |-> <<>>]

\* a call of MergeStoreIndex returns; the call with the arguments swapped is
\* made with it
MergeStoreIndex_Apply ==
    /\ fn.op = "MergeStoreIndex" /\ fn.pc = "called"
    /\ fn' = [fn EXCEPT !.pc = "returned",
                        !.result = MergeStoreIndex(fn.a, fn.b),
                        !.swapped = MergeStoreIndex(fn.b, fn.a)]
    /\ UNCHANGED <<backend, handles, clone, targetRemote, target, faults, uploaded, up, val, pr, down, inspectVars,
                   pipe, storeBlocks, storeIndex, storeGen, blobs, ops>>

\* a call of CreateMissingContent returns
CreateMissingContent_Apply ==
    /\ fn.op = "CreateMissingContent" /\ fn.pc = "called"
    /\ fn' = [fn EXCEPT !.pc = "returned",
                        !.result = CreateMissingContent(fn.a, fn.needed,
                                       fn.targetBlockSize, fn.maxChunksPerBlock)]
    /\ UNCHANGED <<backend, handles, clone, targetRemote, target, faults, uploaded, up, val, pr, down, inspectVars,
                   pipe, storeBlocks, storeIndex, storeGen, blobs, ops>>

(***************************************************************************)
(* pruneStore                                                              *)
(***************************************************************************)
NoPruneInput ==
    [storageURI |-> StoreURI(""), sourceFilePaths |-> <<>>,
     versionLocalStoreIndexesPath |-> "", versionLocalStoreIndexFiles |-> <<>>,
     writeVersionLocalStoreIndex |-> FALSE, dryRun |-> FALSE, numWorkerCount |-> 1]

NoSnapshot == [storeBlocks |-> {}, storeIndex |-> {}, blobs |-> <<>>]

PruneIdle ==
    [pc |-> "idle", in |-> NoPruneInput, storeMode |-> "",
     versionLocalStoreIndexFilePaths |-> <<>>,
     usedBlocks |-> <<>>,           \* map from block hash to count
     batchCount |-> 0, batchStart |-> 0, batchLength |-> 0, batchPos |-> 0,
     blockHashesPerBatch |-> <<>>,
     running |-> {},                \* batch positions of the running goroutines
     sending |-> {},                \* the results goroutines are about to send
     batchErrors |-> <<>>,          \* the channel; "" is a nil error
     blockHashes |-> <<>>,          \* the argument of PruneBlocks
     pruneBlocksCalled |-> FALSE, flushCalled |-> FALSE,
     reported |-> -1,               \* the count printed by a dry run
     before |-> NoSnapshot,         \* store and blobs when the call started
     computed |-> <<>>,             \* per listed version, the block hashes found
     failed |-> {},                 \* <<version, step>> of the steps that failed
     err |-> ""]

PruneReturn(error) == [pr EXCEPT !.pc = "done", !.err = error]

\* main.go 2185-2188
PruneStoreMode(dryRun) == IF dryRun THEN "ReadOnly" ELSE "ReadWrite"

\* main.go 2171-2247: the store, the two lists and the batch size
pruneStore_Setup(in) ==
    /\ pr.pc = "idle"
    /\ ops' = ops + 1
    /\ LET st == createBlockStoreForURI(in.storageURI)
           lsis == IF in.versionLocalStoreIndexesPath # ""
                   THEN in.versionLocalStoreIndexFiles ELSE <<>>
           run == [PruneIdle EXCEPT
                      !.in = in,
                      !.storeMode = PruneStoreMode(in.dryRun),
                      !.before = [storeBlocks |-> storeBlocks,
                                  storeIndex |-> storeIndex, blobs |-> blobs],
                      !.computed = [i \in 1..Len(in.sourceFilePaths) |-> <<>>]]
       IN  pr' = IF st.err # "" THEN [run EXCEPT !.pc = "done", !.err = st.err]
                 ELSE IF in.versionLocalStoreIndexesPath # ""
                         /\ Len(in.sourceFilePaths) # Len(lsis)
                 THEN [run EXCEPT !.pc = "done",
                                  !.err = "Number of files does not match"]
                 ELSE [run EXCEPT
                          !.pc = "batch",
                          !.versionLocalStoreIndexFilePaths = lsis,
                          !.batchCount = Min(in.numWorkerCount, Len(in.sourceFilePaths))]
    /\ UNCHANGED <<backend, handles, clone, targetRemote, target, faults, inspectVars, pipe, fn, uploaded, up, val, down,
                   storeBlocks, storeIndex, storeGen, blobs>>

\* main.go 2359-2362: a dry run returns before PruneBlocks
PruneAfterScanAlwaysPrunes(dryRun) == "prune"

PruneAfterScan(dryRun) == IF dryRun THEN "done" ELSE "prune"

\* main.go 2252-2265 and 2355-2362: the next batch of goroutines, or the end
\* of the scan, where a dry run reports and returns
pruneStore_StartBatch ==
    /\ pr.pc = "batch"
    /\ LET n == Len(pr.in.sourceFilePaths)
           batchLength == Min(pr.batchCount, n - pr.batchStart)
       IN  pr' = IF pr.batchStart < n
                 THEN [pr EXCEPT !.pc = "receive",
                                 !.batchLength = batchLength,
                                 !.batchPos = 0,
                                 !.blockHashesPerBatch = [p \in 1..batchLength |-> <<>>],
                                 !.running = 1..batchLength]
                 ELSE [pr EXCEPT !.pc = PruneAfterScan(pr.in.dryRun),
                                 !.reported = IF pr.in.dryRun
                                              THEN Cardinality(DOMAIN pr.usedBlocks)
                                              ELSE @]
    /\ UNCHANGED <<backend, handles, clone, targetRemote, target, faults, inspectVars, pipe, fn, uploaded, up, val, down, ops,
                   storeBlocks, storeIndex, storeGen, blobs>>

\* main.go 2266-2335: what the goroutine of one version does.  `sent` is the
\* value of the variable given to the channel: at 2274 and 2297 it is the err
\* of ReadFromURI(sourceFilePath), at 2284 the err of the read of the store
\* index file.
PruneVersion(in, sourceFilePath, versionLocalStoreIndexFilePath, queryErrno, writeErrno) ==
    LET rd == ReadFromURI(sourceFilePath)
        vi == ReadVersionIndexFromBuffer(rd.buffer)
        useFile == versionLocalStoreIndexFilePath # "" /\ ~in.writeVersionLocalStoreIndex
        srd == ReadFromURI(versionLocalStoreIndexFilePath)
        si == ReadStoreIndexFromBuffer(srd.buffer)
        fileIsValid == /\ useFile /\ srd.err = "" /\ si.errno = 0
                       /\ ValidateStore(si.storeIndex, vi.vindex) = 0
        queried == GetExistingStoreIndex(storeIndex, GetChunkHashes(vi.vindex), 0)
        existingStoreIndex == IF fileIsValid THEN si.storeIndex ELSE queried
        stop(sent, step) ==
            [sent |-> sent, computed |-> FALSE, blockHashes |-> <<>>,
             failed |-> {step}, write |-> FALSE, storeIndex |-> <<>>]
        finish(sent, steps, write) ==
            [sent |-> sent, computed |-> TRUE,
             blockHashes |-> GetBlockHashes(existingStoreIndex),
             failed |-> steps, write |-> write, storeIndex |-> existingStoreIndex]
    IN  IF rd.err # "" THEN stop(rd.err, "ReadFromURI")
        ELSE IF vi.errno # 0 THEN stop(rd.err, "ReadVersionIndexFromBuffer")
        ELSE IF useFile /\ srd.err = "" /\ si.errno # 0
             THEN stop(srd.err, "ReadStoreIndexFromBuffer")
        ELSE IF ~fileIsValid /\ queryErrno # 0
             THEN stop(rd.err, "GetExistingStoreIndexSync")
        ELSE IF ~fileIsValid /\ ValidateStore(queried, vi.vindex) # 0
             THEN IF in.dryRun THEN stop("", "DataMissingWarning")
                  ELSE stop("Data is missing in store", "DataMissing")
        ELSE IF versionLocalStoreIndexFilePath # ""
                /\ in.writeVersionLocalStoreIndex /\ ~in.dryRun
             THEN IF writeErrno # 0 THEN finish("WriteToURI failed", {"WriteToURI"}, FALSE)
                  ELSE finish("", {}, TRUE)
        ELSE finish("", {}, FALSE)

pruneStore_Version(batchPos) ==
    /\ pr.pc = "receive"
    /\ batchPos \in pr.running
    /\ \E queryErrno \in Errnos("pruneStore"), writeErrno \in Errnos("pruneStore") :
         LET i == pr.batchStart + batchPos
             lsi == IF Len(pr.versionLocalStoreIndexFilePaths) > 0
                    THEN pr.versionLocalStoreIndexFilePaths[i] ELSE ""
             out == PruneVersion(pr.in, pr.in.sourceFilePaths[i], lsi,
                                 queryErrno, writeErrno)
         IN  /\ pr' = [pr EXCEPT
                          !.running = @ \ {batchPos},
                          !.blockHashesPerBatch[batchPos] = @ \o out.blockHashes,
                          !.computed[i] = out.blockHashes,
                          !.failed = @ \cup {<<i, f>> : f \in out.failed},
                          !.batchErrors = Append(@, out.sent)]
             /\ blobs' = IF out.write
                         THEN [blobs EXCEPT ![lsi] = WriteStoreIndexToBuffer(out.storeIndex)]
                         ELSE blobs
    /\ UNCHANGED <<backend, handles, clone, targetRemote, target, faults, inspectVars, pipe, fn, uploaded, up, val, down, ops,
                   storeBlocks, storeIndex, storeGen>>

PruneChannelUnbuffered(batchCount) == 0

\* main.go 2249: batchErrors := make(chan error, batchCount)
PruneChannelCapacity(batchCount) == batchCount

\* main.go 2266-2335: the goroutine of one version up to its send, with its
\* slot of blockHashesPerBatch written.  It runs on when pruneStore has
\* returned on the error of another.
pruneStore_Scan(batchPos) ==
    /\ pr.pc \in {"receive", "done"}
    /\ batchPos \in pr.running
    /\ \A s \in pr.sending : s.batchPos # batchPos
    /\ \E queryErrno \in Errnos("pruneStore"), writeErrno \in Errnos("pruneStore") :
         LET i == pr.batchStart + batchPos
             lsi == IF Len(pr.versionLocalStoreIndexFilePaths) > 0
                    THEN pr.versionLocalStoreIndexFilePaths[i] ELSE ""
             out == PruneVersion(pr.in, pr.in.sourceFilePaths[i], lsi,
                                 queryErrno, writeErrno)
         IN  /\ pr' = [pr EXCEPT
                          !.sending = @ \cup {[batchPos |-> batchPos, sent |-> out.sent]},
                          !.blockHashesPerBatch[batchPos] = @ \o out.blockHashes,
                          !.computed[i] = out.blockHashes,
                          !.failed = @ \cup {<<i, f>> : f \in out.failed}]
             /\ blobs' = IF out.write
                         THEN [blobs EXCEPT ![lsi] = WriteStoreIndexToBuffer(out.storeIndex)]
                         ELSE blobs
    /\ UNCHANGED <<backend, handles, clone, targetRemote, target, faults, inspectVars, pipe, fn, uploaded, up, val, down, ops,
                   storeBlocks, storeIndex, storeGen>>

\* batchErrors <- err: the send of a goroutine, when the channel has room
pruneStore_Send(batchPos) ==
    /\ pr.pc \in {"receive", "done"}
    /\ Len(pr.batchErrors) < PruneChannelCapacity(pr.batchCount)
    /\ \E s \in pr.sending :
          /\ s.batchPos = batchPos
          /\ pr' = [pr EXCEPT !.sending = @ \ {s},
                               !.running = @ \ {batchPos},
                               !.batchErrors = Append(@, s.sent)]
    /\ UNCHANGED <<backend, handles, clone, targetRemote, target, faults, inspectVars, pipe, fn, uploaded, up, val, down, ops,
                   storeBlocks, storeIndex, storeGen, blobs>>

\* main.go 2346-2350: usedBlocks[h] += 1 for every hash of every batch position
AccumulateFirstOnly(usedBlocks, blockHashesPerBatch) ==
    LET all == IF blockHashesPerBatch = <<>> THEN <<>> ELSE blockHashesPerBatch[1]
        keys == DOMAIN usedBlocks \cup Range(all)
    IN  [h \in keys |->
            (IF h \in DOMAIN usedBlocks THEN usedBlocks[h] ELSE 0)
                + Cardinality({k \in 1..Len(all) : all[k] = h})]

AccumulateUsedBlocks(usedBlocks, blockHashesPerBatch) ==
    LET all == Flatten(blockHashesPerBatch)
        keys == DOMAIN usedBlocks \cup Range(all)
    IN  [h \in keys |->
            (IF h \in DOMAIN usedBlocks THEN usedBlocks[h] ELSE 0)
                + Cardinality({k \in 1..Len(all) : all[k] = h})]

\* main.go 2339-2353: one receive; the first non-nil error is returned, the
\* last receive of a batch adds its block hashes to usedBlocks
pruneStore_Receive ==
    /\ pr.pc = "receive"
    /\ pr.batchErrors # <<>>
    /\ LET batchError == Head(pr.batchErrors)
           rest == [pr EXCEPT !.batchErrors = Tail(@)]
       IN  pr' = IF batchError # ""
                 THEN [rest EXCEPT !.pc = "done", !.err = batchError]
                 ELSE IF pr.batchPos + 1 < pr.batchLength
                 THEN [rest EXCEPT !.batchPos = @ + 1]
                 ELSE [rest EXCEPT
                          !.batchPos = @ + 1,
                          !.usedBlocks = AccumulateUsedBlocks(pr.usedBlocks,
                                                              pr.blockHashesPerBatch),
                          !.batchStart = @ + pr.batchLength,
                          !.pc = "batch"]
    /\ UNCHANGED <<backend, handles, clone, targetRemote, target, faults, inspectVars, pipe, fn, uploaded, up, val, down, ops,
                   storeBlocks, storeIndex, storeGen, blobs>>

\* the orders in which a range over a map can give its keys
KeyOrders(keys) ==
    {s \in [1..Cardinality(keys) -> keys] : Range(s) = keys}

\* store.PruneBlocks: every block whose hash is not listed is deleted
PruneBlocks(blocks, blockHashes) == {b \in blocks : b.blockHash \in Range(blockHashes)}

\* main.go 2364-2378
pruneStore_PruneBlocks ==
    /\ pr.pc = "prune"
    /\ \E blockHashes \in KeyOrders(DOMAIN pr.usedBlocks), errno \in Errnos("pruneStore") :
         IF errno # 0
         THEN /\ pr' = [PruneReturn("store.PruneBlocks() failed") EXCEPT
                           !.blockHashes = blockHashes, !.pruneBlocksCalled = TRUE]
              /\ UNCHANGED <<storeBlocks, storeIndex, storeGen>>
         ELSE /\ storeBlocks' = PruneBlocks(storeBlocks, blockHashes)
              /\ storeIndex' = PruneBlocks(storeIndex, blockHashes)
              /\ storeGen' = storeGen + 1
              /\ pr' = [pr EXCEPT !.blockHashes = blockHashes,
                                  !.pruneBlocksCalled = TRUE, !.pc = "flush"]
    /\ UNCHANGED <<backend, handles, clone, targetRemote, target, faults, inspectVars, pipe, fn, uploaded, up, val, down, ops, blobs>>

\* main.go 2383-2397
pruneStore_Flush ==
    /\ pr.pc = "flush"
    /\ \E errno \in Errnos("pruneStore") :
         pr' = [PruneReturn(IF errno # 0 THEN "longtailutils.FlushStore: Failed" ELSE "")
                   EXCEPT !.flushCalled = TRUE]
    /\ UNCHANGED <<backend, handles, clone, targetRemote, target, faults, inspectVars, pipe, fn, uploaded, up, val, down, ops,
                   storeBlocks, storeIndex, storeGen, blobs>>

\* the call has returned; its goroutines and locals are gone
pruneStore_Return ==
    /\ pr.pc = "done"
    /\ pr' = PruneIdle
    /\ UNCHANGED <<backend, handles, clone, targetRemote, target, faults, inspectVars, pipe, fn, uploaded, up, val, down, ops,
                   storeBlocks, storeIndex, storeGen, blobs>>

pruneStore_Step ==
    \/ pruneStore_StartBatch
    \/ \E batchPos \in 1..MaxWorkers : pruneStore_Version(batchPos)
    \/ pruneStore_Receive
    \/ pruneStore_PruneBlocks
    \/ pruneStore_Flush
    \/ pruneStore_Return

(***************************************************************************)
(* cloneStore and cloneOneVersion                                          *)
(***************************************************************************)
\* A file path is its text, a sequence of characters.
HasPrefix(s, prefix) ==
    Len(s) >= Len(prefix) /\ SubSeq(s, 1, Len(prefix)) = prefix

\* the elements of a path, split at the separators
RECURSIVE SplitPath(_)
SplitPath(s) ==
    IF s = <<>> THEN << <<>> >>
    ELSE LET r == SplitPath(Tail(s))
         IN  IF Head(s) = "/" THEN << <<>> >> \o r
             ELSE << <<Head(s)>> \o Head(r) >> \o Tail(r)

RECURSIVE JoinElements(_)
JoinElements(elems) ==
    IF elems = <<>> THEN <<>>
    ELSE IF Len(elems) = 1 THEN Head(elems)
    ELSE Head(elems) \o <<"/">> \o JoinElements(Tail(elems))

\* filepath.Clean, element by element: empty elements and . are dropped, ..
\* takes the element before it away, stays at the head of a relative path
\* and is dropped at the root
RECURSIVE CleanElements(_, _, _)
CleanElements(out, elems, rooted) ==
    IF elems = <<>> THEN out
    ELSE LET e == Head(elems)
             next == IF e = <<>> \/ e = <<".">> THEN out
                     ELSE IF e # <<".", ".">> THEN Append(out, e)
                     ELSE IF out # <<>> /\ Last(out) # <<".", ".">> THEN Front(out)
                     ELSE IF rooted THEN out
                     ELSE Append(out, e)
         IN  CleanElements(next, Tail(elems), rooted)

Clean(path) ==
    IF path = <<>> THEN <<".">>
    ELSE LET rooted == Head(path) = "/"
             body == JoinElements(CleanElements(<<>>, SplitPath(path), rooted))
         IN  IF rooted THEN <<"/">> \o body
             ELSE IF body = <<>> THEN <<".">>
             ELSE body

\* filepath.Join of two elements: empty elements are ignored, the rest is
\* joined with a separator and cleaned
Join(a, b) ==
    IF a = <<>> /\ b = <<>> THEN <<>>
    ELSE IF a = <<>> THEN Clean(b)
    ELSE IF b = <<>> THEN Clean(a)
    ELSE Clean(a \o <<"/">> \o b)

\* the ZipSlip check of a path without the separator
IllegalFilePathByName(path, targetPath) == ~HasPrefix(path, Clean(targetPath))

\* main.go 1861-1864: the path of an entry is refused unless it starts with
\* the cleaned target path and a separator
IllegalFilePath(path, targetPath) ==
    ~HasPrefix(path, Clean(targetPath) \o <<"/">>)

\* the file of the target folder at a path, "" for a path that is not one
FileOfTarget(path, targetPath) ==
    IF \E p \in Paths : path = Clean(targetPath) \o <<"/", p>>
    THEN CHOOSE p \in Paths : path = Clean(targetPath) \o <<"/", p>>
    ELSE ""

TargetVersionURIs == {"t1.lvi", "t2.lvi"}

TargetURIs == TargetVersionURIs \cup {"t1.lsi", "t2.lsi"}

\* main.go 2000: strings.Replace(targetFilePath, ".lvi", ".lsi", -1)
ReplaceLviByLsi(targetFilePath) ==
    CASE targetFilePath = "t1.lvi" -> "t1.lsi"
      [] targetFilePath = "t2.lvi" -> "t2.lsi"
      [] OTHER -> targetFilePath

\* a version index value of Go: the zero value is not valid
InvalidVersionIndex == [valid |-> FALSE, vindex |-> NoVersionIndex]

ValidVersionIndex(vindex) == [valid |-> TRUE, vindex |-> vindex]

\* main.go 1694-1707: Clone writes the index to a buffer and reads it back
Clone(v) ==
    IF ~v.valid THEN InvalidVersionIndex
    ELSE LET r == ReadVersionIndexFromBuffer(WriteVersionIndexToBuffer(v.vindex))
         IN  IF r.errno # 0 THEN InvalidVersionIndex ELSE ValidVersionIndex(r.vindex)

NoZip == [uri |-> "", blob |-> NoBlob]

NoCloneInput ==
    [sourceStoreURI |-> StoreURI(""), targetStoreURI |-> StoreURI(""),
     targetPath |-> <<>>, sourcePaths |-> <<>>, targetPaths |-> <<>>,
     zipsGiven |-> FALSE, sourceZipPaths |-> <<>>,
     targetBlockSize |-> 0, maxChunksPerBlock |-> 0, retainPermissions |-> FALSE,
     createVersionLocalStoreIndex |-> FALSE, minBlockUsagePercent |-> 0,
     skipValidate |-> FALSE]

CloneIdle ==
    [pc |-> "idle", in |-> NoCloneInput, pos |-> 0,
     currentVersionIndex |-> InvalidVersionIndex,
     sourceVersionIndex |-> NoVersionIndex, targetVersionIndex |-> NoVersionIndex,
     newVersionIndex |-> NoVersionIndex, versionDiff |-> NoVersionDiff,
     chunkHashes |-> <<>>, existingStoreIndex |-> <<>>, vbuffer |-> NoBlob,
     entry |-> 0, newExistingStoreIndex |-> <<>>, versionMissingStoreIndex |-> <<>>,
     flushing |-> FALSE, flushErrno |-> 0, written |-> <<>>, err |-> ""]

\* the target store (its block files, its store index blob and the blocks put
\* but not yet in the blob) and the blobs at the target URIs
NoTargetRemote ==
    [blocks |-> {}, index |-> {}, added |-> {},
     blobs |-> [u \in TargetURIs |-> NoBlob]]

\* what no step of cloneStore touches
cloneFrame == <<backend, handles, faults, uploaded, up, val, pr, down, inspectVars, pipe, fn,
                storeBlocks, storeIndex, storeGen, blobs>>

\* cloneOneVersion returns to the loop of cloneStore, which keeps the index
\* returned as the current one and returns the error when there is one
\* (main.go 2130-2155)
CloneOneReturn(newCurrentVersionIndex, error) ==
    [clone EXCEPT !.currentVersionIndex = newCurrentVersionIndex,
                  !.err = error,
                  !.pc = IF error # "" THEN "done" ELSE "loop"]

SourceFilePath == clone.in.sourcePaths[clone.pos]

TargetFilePath == clone.in.targetPaths[clone.pos]

SourceFileZip ==
    IF clone.in.zipsGiven THEN clone.in.sourceZipPaths[clone.pos] ELSE NoZip

\* the store index the target store answers from
TargetVisibleIndex == VisibleIndex(targetRemote.index, targetRemote.added)

\* main.go 2032-2113: the source store and the target store
cloneStore_Setup(in) ==
    /\ clone.pc = "idle"
    /\ ops' = ops + 1
    /\ LET sourceRemoteIndexStore == createBlockStoreForURI(in.sourceStoreURI)
           targetRemoteStore == createBlockStoreForURI(in.targetStoreURI)
           run == [CloneIdle EXCEPT !.in = in]
       IN  clone' = IF sourceRemoteIndexStore.err # ""
                    THEN [run EXCEPT !.pc = "done", !.err = sourceRemoteIndexStore.err]
                    ELSE IF targetRemoteStore.err # ""
                    THEN [run EXCEPT !.pc = "done", !.err = targetRemoteStore.err]
                    ELSE [run EXCEPT !.pc = "loop"]
    /\ targetRemote' = [targetRemote EXCEPT !.added = {}]
    /\ UNCHANGED <<cloneFrame, target>>

\* main.go 2158-2166: the errors of the three scanners; the scanner of the zip
\* list is a nil pointer when no list was given
ScannerErr(zipsGiven) ==
    IF zipsGiven THEN "" ELSE "panic: nil pointer dereference"

\* main.go 2115-2127: the loop goes on while every list has a line left
cloneStore_Loop ==
    /\ clone.pc = "loop"
    /\ LET in == clone.in
           more == /\ clone.pos < Len(in.sourcePaths)
                   /\ clone.pos < Len(in.targetPaths)
                   /\ in.zipsGiven => clone.pos < Len(in.sourceZipPaths)
       IN  clone' = IF more
                    THEN [clone EXCEPT !.pos = clone.pos + 1, !.entry = 0,
                                       !.written = <<>>, !.pc = "validate"]
                    ELSE [clone EXCEPT !.pc = "done",
                                       !.err = ScannerErr(in.zipsGiven)]
    /\ UNCHANGED <<cloneFrame, target, targetRemote, ops>>

\* main.go 1661-1692
validateOneVersion(targetFilePath, skipValidate, errno) ==
    LET tbuffer == targetRemote.blobs[targetFilePath]
        vi == ReadVersionIndexFromBuffer(tbuffer)
        targetStoreIndex ==
            GetExistingStoreIndex(TargetVisibleIndex, GetChunkHashes(vi.vindex), 0)
    IN  IF tbuffer = NoBlob THEN "ReadFromURI failed"
        ELSE IF skipValidate THEN ""
        ELSE IF vi.errno # 0 THEN "ReadVersionIndexFromBuffer failed"
        ELSE IF errno # 0 THEN "GetExistingStoreIndexSync failed"
        ELSE IF ValidateStore(targetStoreIndex, vi.vindex) # 0 THEN "ValidateStore failed"
        ELSE ""

\* main.go 1730-1736: a target version index that validates is left alone
cloneOneVersion_Validate ==
    /\ clone.pc = "validate"
    /\ \E errno \in Errnos("cloneStore") :
         clone' = IF validateOneVersion(TargetFilePath, clone.in.skipValidate, errno) = ""
                  THEN CloneOneReturn(Clone(clone.currentVersionIndex), "")
                  ELSE [clone EXCEPT !.pc = "readSource"]
    /\ UNCHANGED <<cloneFrame, target, targetRemote, ops>>

\* main.go 1746-1751: the error returned when the source index cannot be
\* parsed is err, which the read before it has left nil
CloneUnreadableSource == ""

\* main.go 1738-1805: the source index, the index of the target folder (the
\* current version index when it is valid, a scan otherwise), the diff and
\* the blocks of the source store it needs
cloneOneVersion_ReadSource ==
    /\ clone.pc = "readSource"
    /\ \E scanErrno \in Errnos("cloneStore"), errno \in Errnos("cloneStore") :
         LET rd == ReadFromURI(SourceFilePath)
             vi == ReadVersionIndexFromBuffer(rd.buffer)
             sourceVersionIndex == vi.vindex
             current == clone.currentVersionIndex
             targetVersionIndex ==
                 IF current.valid THEN Clone(current).vindex
                 ELSE CreateVersionIndex(target, sourceVersionIndex.hashId,
                                         sourceVersionIndex.targetChunkSize)
             versionDiff == CreateVersionDiff(targetVersionIndex, sourceVersionIndex)
             chunkHashes == GetRequiredChunkHashes(sourceVersionIndex, versionDiff)
         IN  clone' =
                 IF rd.err # "" THEN CloneOneReturn(Clone(current), rd.err)
                 ELSE IF vi.errno # 0
                      THEN CloneOneReturn(Clone(current), CloneUnreadableSource)
                 ELSE IF ~current.valid /\ scanErrno # 0
                      THEN CloneOneReturn(Clone(current), "GetFilesRecursively failed")
                 ELSE IF errno # 0
                      THEN CloneOneReturn(Clone(current), "GetExistingStoreIndexSync failed")
                 ELSE [clone EXCEPT
                          !.pc = "changeVersion",
                          !.sourceVersionIndex = sourceVersionIndex,
                          !.targetVersionIndex = targetVersionIndex,
                          !.versionDiff = versionDiff,
                          !.chunkHashes = chunkHashes,
                          !.vbuffer = rd.buffer,
                          !.existingStoreIndex =
                              GetExistingStoreIndex(storeIndex, chunkHashes, 0)]
    /\ UNCHANGED <<cloneFrame, target, targetRemote, ops>>

\* main.go 1828-1831: the error returned when the version cannot be built from
\* the source store and there is no zip is err, which is nil
CloneSkipped == ""

\* main.go 1807-1831: ChangeVersion rewrites the paths of the diff from the
\* source store; when it fails, the version is skipped without a zip path
\* and unpacked from the zip otherwise
cloneOneVersion_ChangeVersion ==
    /\ clone.pc = "changeVersion"
    /\ LET paths == DiffPaths(clone.versionDiff)
           index == clone.existingStoreIndex
           readable ==
               \A c \in Range(clone.chunkHashes) : ChunkBlocks(index, storeBlocks, c) # {}
           doable == IF readable THEN paths ELSE clone.versionDiff.removed
       IN  \E done \in SUBSET doable,
              errno \in Errnos("cloneStore") \cup (IF readable THEN {} ELSE {5}) :
             /\ (errno = 0) <=> (readable /\ done = paths)
             /\ target' = [p \in Paths |->
                    IF p \in done
                    THEN ChangedAsset(target, p, index, storeBlocks,
                                      clone.sourceVersionIndex, clone.versionDiff,
                                      clone.in.retainPermissions)
                    ELSE target[p]]
             /\ clone' =
                    IF errno = 0
                    THEN [clone EXCEPT
                             !.newVersionIndex =
                                 Clone(ValidVersionIndex(clone.sourceVersionIndex)).vindex,
                             !.pc = "missingContent"]
                    ELSE IF SourceFileZip.uri = ""
                    THEN CloneOneReturn(InvalidVersionIndex, CloneSkipped)
                    ELSE [clone EXCEPT !.pc = "unzip"]
    /\ UNCHANGED <<cloneFrame, targetRemote, ops>>

\* main.go 1832-1845: the archive is read and opened, the target folder is
\* removed and made again
cloneOneVersion_Unzip ==
    /\ clone.pc = "unzip"
    /\ LET zipBytes == SourceFileZip.blob
           opened == zipBytes # NoBlob /\ zipBytes.kind = "zip"
       IN  /\ clone' =
                  IF zipBytes = NoBlob
                  THEN CloneOneReturn(InvalidVersionIndex, "ReadFromURI failed")
                  ELSE IF zipBytes.kind # "zip"
                  THEN CloneOneReturn(InvalidVersionIndex, "zip.OpenReader failed")
                  ELSE [clone EXCEPT !.entry = 1,
                                     !.pc = IF zipBytes.entries = <<>> THEN "reindex"
                                            ELSE "extract"]
           /\ target' = IF opened THEN EmptyTree ELSE target
    /\ UNCHANGED <<cloneFrame, targetRemote, ops>>

\* main.go 1847-1893: one entry of the archive is written at its path joined
\* to the target path, unless the path is refused
cloneOneVersion_Extract ==
    /\ clone.pc = "extract"
    /\ LET files == SourceFileZip.blob.entries
           f == files[clone.entry]
           path == Join(clone.in.targetPath, f.name)
           p == FileOfTarget(path, clone.in.targetPath)
       IN  IF IllegalFilePath(path, clone.in.targetPath)
           THEN /\ clone' = CloneOneReturn(InvalidVersionIndex, "illegal file path")
                /\ UNCHANGED target
           ELSE /\ clone' = [clone EXCEPT
                                !.written = Append(clone.written, path),
                                !.entry = clone.entry + 1,
                                !.pc = IF clone.entry = Len(files) THEN "reindex"
                                       ELSE "extract"]
                /\ target' = IF p = "" THEN target
                             ELSE [target EXCEPT
                                      ![p] = [present |-> TRUE, data |-> f.data,
                                              perm |-> 420]]
    /\ UNCHANGED <<cloneFrame, targetRemote, ops>>

\* main.go 1895-1938: the unpacked folder is indexed with the hash algorithm
\* and the chunk size of the source index
cloneOneVersion_Reindex ==
    /\ clone.pc = "reindex"
    /\ \E errno \in Errnos("cloneStore") :
         LET newVersionIndex ==
                 CreateVersionIndex(target, clone.sourceVersionIndex.hashId,
                                    clone.sourceVersionIndex.targetChunkSize)
         IN  clone' =
                 IF errno # 0
                 THEN CloneOneReturn(InvalidVersionIndex, "GetFilesRecursively failed")
                 ELSE [clone EXCEPT
                          !.newVersionIndex = newVersionIndex,
                          !.chunkHashes = GetChunkHashes(newVersionIndex),
                          !.vbuffer = WriteVersionIndexToBuffer(newVersionIndex),
                          !.pc = "missingContent"]
    /\ UNCHANGED <<cloneFrame, target, targetRemote, ops>>

\* main.go 1942-1957: the blocks of the target store that hold chunks of the
\* new version, and the blocks to make of the others
cloneOneVersion_MissingContent ==
    /\ clone.pc = "missingContent"
    /\ \E errno \in Errnos("cloneStore"), errno2 \in Errnos("cloneStore") :
         LET in == clone.in
             newExistingStoreIndex ==
                 GetExistingStoreIndex(TargetVisibleIndex,
                                       GetChunkHashes(clone.newVersionIndex),
                                       in.minBlockUsagePercent)
             versionMissingStoreIndex ==
                 CreateMissingContent(newExistingStoreIndex, clone.newVersionIndex,
                                      in.targetBlockSize, in.maxChunksPerBlock)
         IN  clone' =
                 IF errno # 0
                 THEN CloneOneReturn(Clone(ValidVersionIndex(clone.sourceVersionIndex)),
                                     "GetExistingStoreIndexSync failed")
                 ELSE IF errno2 # 0
                 THEN CloneOneReturn(Clone(ValidVersionIndex(clone.newVersionIndex)),
                                     "CreateMissingContent failed")
                 ELSE [clone EXCEPT
                          !.newExistingStoreIndex = newExistingStoreIndex,
                          !.versionMissingStoreIndex = versionMissingStoreIndex,
                          !.pc = IF versionMissingStoreIndex = <<>> THEN "flush"
                                 ELSE "writeContent"]
    /\ UNCHANGED <<cloneFrame, target, targetRemote, ops>>

\* main.go 1959-1974: WriteContent reads the chunks of the missing blocks
\* from the target folder and puts the blocks into the target store; on an
\* error any part of them may have been put
cloneOneVersion_WriteContent ==
    /\ clone.pc = "writeContent"
    /\ LET all == Range(clone.versionMissingStoreIndex)
           writable == {b \in all : BlockReadable(target, clone.newVersionIndex, b)}
       IN  \E put \in SUBSET writable,
              errno \in Errnos("cloneStore") \cup (IF writable = all THEN {} ELSE {5}) :
             /\ (errno = 0) <=> (put = all)
             /\ targetRemote' =
                    [targetRemote EXCEPT
                        !.blocks = PutStoredBlocks(targetRemote.blocks,
                            {AssembleBlock(target, clone.newVersionIndex, b, 0) : b \in put}),
                        !.added = targetRemote.added \cup put]
             /\ clone' =
                    IF errno # 0
                    THEN CloneOneReturn(Clone(ValidVersionIndex(clone.newVersionIndex)),
                                        "WriteContent failed")
                    ELSE [clone EXCEPT !.pc = "flush"]
    /\ UNCHANGED <<cloneFrame, target, ops>>

\* main.go 1976-1983: FlushStores starts the flush of the stores and returns
\* the handle to wait on
cloneOneVersion_Flush ==
    /\ clone.pc = "flush"
    /\ \E errno \in Errnos("cloneStore") :
         clone' = IF errno # 0
                  THEN CloneOneReturn(Clone(ValidVersionIndex(clone.newVersionIndex)),
                                      "FlushStores failed")
                  ELSE [clone EXCEPT !.flushing = TRUE, !.flushErrno = 0,
                                     !.pc = "writeVersionIndex"]
    /\ UNCHANGED <<cloneFrame, target, targetRemote, ops>>

\* the flush of the target store completes: the blocks put are in its store
\* index blob, or the flush has failed
BlockStore_OnFlushComplete ==
    /\ clone.flushing
    /\ \E errno \in Errnos("cloneStore") :
         /\ clone' = [clone EXCEPT !.flushing = FALSE, !.flushErrno = errno]
         /\ targetRemote' =
                IF errno # 0 THEN targetRemote
                ELSE [targetRemote EXCEPT
                         !.index = targetRemote.index \cup targetRemote.added,
                         !.added = {}]
    /\ UNCHANGED <<cloneFrame, target, ops>>

\* main.go 1985-1988
cloneOneVersion_WriteVersionIndex ==
    /\ clone.pc = "writeVersionIndex"
    /\ targetRemote' = [targetRemote EXCEPT !.blobs[TargetFilePath] = clone.vbuffer]
    /\ clone' = [clone EXCEPT
                    !.pc = IF clone.in.createVersionLocalStoreIndex
                           THEN "writeStoreIndex" ELSE "wait"]
    /\ UNCHANGED <<cloneFrame, target, ops>>

\* main.go 1990-2005
cloneOneVersion_WriteStoreIndex ==
    /\ clone.pc = "writeStoreIndex"
    /\ LET versionLocalStoreIndex ==
               MergeStoreIndex(clone.newExistingStoreIndex,
                               clone.versionMissingStoreIndex)
       IN  targetRemote' =
               [targetRemote EXCEPT
                   !.blobs[ReplaceLviByLsi(TargetFilePath)] =
                       WriteStoreIndexToBuffer(versionLocalStoreIndex)]
    /\ clone' = [clone EXCEPT !.pc = "wait"]
    /\ UNCHANGED <<cloneFrame, target, ops>>

\* main.go 2007-2012: f.Wait() returns when the flush has completed
cloneOneVersion_Wait ==
    /\ clone.pc = "wait"
    /\ ~clone.flushing
    /\ clone' = CloneOneReturn(Clone(ValidVersionIndex(clone.newVersionIndex)),
                               IF clone.flushErrno # 0 THEN "FlushStores failed" ELSE "")
    /\ UNCHANGED <<cloneFrame, target, targetRemote, ops>>

cloneStore_Return ==
    /\ clone.pc = "done"
    /\ clone' = CloneIdle
    /\ UNCHANGED <<cloneFrame, target, targetRemote, ops>>

cloneStore_Step ==
    \/ cloneStore_Loop
    \/ cloneOneVersion_Validate
    \/ cloneOneVersion_ReadSource
    \/ cloneOneVersion_ChangeVersion
    \/ cloneOneVersion_Unzip
    \/ cloneOneVersion_Extract
    \/ cloneOneVersion_Reindex
    \/ cloneOneVersion_MissingContent
    \/ cloneOneVersion_WriteContent
    \/ cloneOneVersion_Flush
    \/ BlockStore_OnFlushComplete
    \/ cloneOneVersion_WriteVersionIndex
    \/ cloneOneVersion_WriteStoreIndex
    \/ cloneOneVersion_Wait
    \/ cloneStore_Return

(***************************************************************************)
(* The S3 blob store (longtailstorelib/s3Store.go).  Keys and paths are    *)
(* texts, sequences of characters.  An error is the chain of its layers,   *)
(* outermost first, and nil is the empty chain.  The variable fn holds the *)
(* store, the objects of its bucket and the last call with its result.     *)
(***************************************************************************)
NilError == <<>>

ErrNotExist == <<[type |-> "os.ErrNotExist", text |-> <<"file does not exist">>]>>

\* the text of an error: the texts of its layers, outermost first
RECURSIVE ErrorText(_)
ErrorText(err) ==
    IF err = <<>> THEN <<>> ELSE Head(err).text \o ErrorText(Tail(err))

\* errors.Wrap and errors.Wrapf: a layer with the message around the error
Wrap(err, message) ==
    <<[type |-> "errors.withStack", text |-> <<message, ": ">>]>> \o err

\* errors.Is: the error is the sentinel or wraps it
ErrorsIs(err, sentinel) ==
    \E i \in 1..Len(err) : SubSeq(err, i, Len(err)) = sentinel

\* errors.As: a layer of the chain has the type
ErrorsAs(err, type) == \E i \in 1..Len(err) : err[i].type = type

\* strings.Contains
Contains(s, substr) ==
    \E i \in 0..(Len(s) - Len(substr)) : SubSeq(s, i + 1, i + Len(substr)) = substr

\* the error the SDK returns for a response with an error status
ResponseError(operation, status, type, code) ==
    <<[type |-> "smithy.OperationError",
       text |-> <<"operation error S3: ", operation, ", ">>],
      [type |-> "http.ResponseError",
       text |-> <<"https response error ", "StatusCode: ", status, ", RequestID: , ">>],
      [type |-> type, text |-> <<"api error ", code>>]>>

\* the error the SDK returns when no response arrived
TransportError(operation) ==
    <<[type |-> "smithy.OperationError",
       text |-> <<"operation error S3: ", operation, ", ">>],
      [type |-> "http.RequestSendError", text |-> <<"request send failed">>]>>

\* what can go wrong with a request besides a missing key
S3Failures == {"none", "AccessDenied", "NoSuchBucket", "InternalError", "transport", "body"}

\* the error of a request that fails otherwise than by a missing key
FailureError(operation, failure) ==
    CASE failure = "AccessDenied" ->
            ResponseError(operation, "403", "smithy.GenericAPIError", "AccessDenied")
      [] failure = "NoSuchBucket" ->
            ResponseError(operation, "404",
                IF operation = "HeadObject" THEN "types.NotFound" ELSE "types.NoSuchBucket",
                IF operation = "HeadObject" THEN "NotFound" ELSE "NoSuchBucket")
      [] failure = "InternalError" ->
            ResponseError(operation, "500", "smithy.GenericAPIError", "InternalError")
      [] OTHER -> TransportError(operation)

HasKey(objects, key) == \E o \in objects : o.key = key

ObjectAt(objects, key) == CHOOSE o \in objects : o.key = key

\* s3.Client.GetObject
GetObject(objects, key, failure) ==
    IF failure \notin {"none", "body"}
    THEN [err |-> FailureError("GetObject", failure), body |-> <<>>]
    ELSE IF ~HasKey(objects, key)
    THEN [err |-> ResponseError("GetObject", "404", "types.NoSuchKey", "NoSuchKey"),
          body |-> <<>>]
    ELSE [err |-> NilError, body |-> ObjectAt(objects, key).data]

\* s3.Client.HeadObject
HeadObject(objects, key, failure) ==
    IF failure \notin {"none", "body"} THEN FailureError("HeadObject", failure)
    ELSE IF ~HasKey(objects, key)
    THEN ResponseError("HeadObject", "404", "types.NotFound", "NotFound")
    ELSE NilError

\* s3.Client.ListObjectsV2: the keys of the bucket with the prefix
ListObjectsV2(objects, prefix, failure) ==
    IF failure \notin {"none", "body"}
    THEN [err |-> FailureError("ListObjectsV2", failure), contents |-> {}]
    ELSE [err |-> NilError,
          contents |-> {o \in objects : HasPrefix(o.key, prefix)}]

NoS3Store == [bucketName |-> "", prefix |-> <<>>]

NewS3BlobStore(u) ==
    IF u.scheme # "s3"
    THEN [store |-> NoS3Store,
          err |-> Wrap(<<[type |-> "fmt.wrapError",
                          text |-> <<"invalid scheme '", u.scheme, "', expected 'gs'">>]>>,
                       "NewS3BlobStore")]
    ELSE LET stripped == IF Len(u.path) > 0 THEN Tail(u.path) ELSE u.path
             prefix == IF stripped # <<>> THEN stripped \o <<"/">> ELSE stripped
         IN  [store |-> [bucketName |-> u.host, prefix |-> prefix], err |-> NilError]

\* s3BlobClient.NewObject: the key the object addresses
s3BlobClient_NewObject(store, path) == store.prefix \o path

S3ItemNameWhole(store, key) == key

\* the name GetObjects gives a listed key
S3ItemName(store, key) == SubSeq(key, Len(store.prefix) + 1, Len(key))

s3BlobClient_GetObjects(store, objects, pathPrefix, failure) ==
    LET output == ListObjectsV2(objects, store.prefix \o pathPrefix, failure)
    IN  IF output.err # NilError
        THEN [items |-> {}, err |-> Wrap(output.err, "s3BlobClient.GetObjects")]
        ELSE [items |-> {[Size |-> Len(o.data), Name |-> S3ItemName(store, o.key),
                          key |-> o.key] : o \in output.contents},
              err |-> NilError]

S3NotExistUnwrapped(err) == Wrap(err, "s3BlobObject.Read()")

\* the error Read returns for a key that is not there
S3NotExist(err) ==
    Wrap(<<[type |-> "errors.withMessage", text |-> ErrorText(err) \o <<": ">>]>>
            \o ErrNotExist,
         "s3BlobObject.Read()")

s3BlobObject_Read(objects, key, failure) ==
    LET result == GetObject(objects, key, failure)
    IN  IF result.err # NilError
        THEN IF ErrorsAs(result.err, "types.NoSuchKey")
             THEN [data |-> <<>>, err |-> S3NotExist(result.err)]
             ELSE [data |-> <<>>, err |-> result.err]
        ELSE IF failure = "body"
        THEN [data |-> <<>>,
              err |-> Wrap(<<[type |-> "errors.errorString",
                              text |-> <<"unexpected EOF">>]>>, "s3BlobObject.Read()")]
        ELSE [data |-> result.body, err |-> NilError]

S3NotFound == <<"StatusCode: ", "404">>

s3BlobObject_Exists(objects, key, failure) ==
    LET err == HeadObject(objects, key, failure)
    IN  IF err # NilError
        THEN IF Contains(ErrorText(err), S3NotFound)
             THEN [exists |-> FALSE, err |-> NilError]
             ELSE [exists |-> FALSE, err |-> Wrap(err, "s3BlobObject.Exists()")]
        ELSE [exists |-> TRUE, err |-> NilError]

NoS3Call ==
    [op |-> "none", path |-> <<>>, key |-> <<>>, failure |-> "none", data |-> <<>>, exists |-> FALSE,
     items |-> {}, err |-> NilError, answer |-> NilError]

\* a store about to be created from a URL, over a bucket with objects
S3Call(u, objects) ==
    [op |-> "s3", pc |-> "called", u |-> u, store |-> NoS3Store, err |-> NilError,
     objects |-> objects, call |-> NoS3Call]

s3Frame ==
    <<backend, handles, clone, targetRemote, target, faults, uploaded, up, val, pr, down,
      inspectVars, pipe, storeBlocks, storeIndex, storeGen, blobs, ops>>

NewS3BlobStore_Apply ==
    /\ fn.op = "s3" /\ fn.pc = "called"
    /\ LET r == NewS3BlobStore(fn.u)
       IN  fn' = [fn EXCEPT !.pc = IF r.err = NilError THEN "open" ELSE "failed",
                            !.store = r.store, !.err = r.err]
    /\ UNCHANGED s3Frame

\* the paths the calls are made with
S3Paths == {<<>>, <<"a">>, <<"b">>}

s3BlobObject_Read_Apply ==
    /\ fn.op = "s3" /\ fn.pc = "open"
    /\ \E path \in S3Paths, failure \in S3Failures :
          LET key == s3BlobClient_NewObject(fn.store, path)
              r == s3BlobObject_Read(fn.objects, key, failure)
          IN  fn' = [fn EXCEPT !.call =
                        [NoS3Call EXCEPT !.op = "Read", !.path = path, !.key = key,
                                         !.failure = failure, !.data = r.data,
                                         !.err = r.err,
                                         !.answer = GetObject(fn.objects, key, failure).err]]
    /\ UNCHANGED s3Frame

s3BlobObject_Exists_Apply ==
    /\ fn.op = "s3" /\ fn.pc = "open"
    /\ \E path \in S3Paths, failure \in S3Failures \ {"body"} :
          LET key == s3BlobClient_NewObject(fn.store, path)
              r == s3BlobObject_Exists(fn.objects, key, failure)
          IN  fn' = [fn EXCEPT !.call =
                        [NoS3Call EXCEPT !.op = "Exists", !.path = path, !.key = key,
                                         !.failure = failure, !.exists = r.exists,
                                         !.err = r.err,
                                         !.answer = HeadObject(fn.objects, key, failure)]]
    /\ UNCHANGED s3Frame

s3BlobClient_GetObjects_Apply ==
    /\ fn.op = "s3" /\ fn.pc = "open"
    /\ \E pathPrefix \in S3Paths, failure \in {"none", "AccessDenied"} :
          LET r == s3BlobClient_GetObjects(fn.store, fn.objects, pathPrefix, failure)
          IN  fn' = [fn EXCEPT !.call =
                        [NoS3Call EXCEPT !.op = "GetObjects", !.path = pathPrefix,
                                         !.failure = failure, !.items = r.items,
                                         !.err = r.err]]
    /\ UNCHANGED s3Frame

(***************************************************************************)
(* Handles and goroutines of a call.  A function is taken as the sequence  *)
(* of its statements that create, defer, dispose or wait: a call that can  *)
(* fail, the return on its error with the statements that precede it, the  *)
(* goroutine of an asynchronous scan or read.  Deferred calls run last in, *)
(* first out when the function returns.                                    *)
(***************************************************************************)
St(op, h, line) == [op |-> op, h |-> h, line |-> line, block |-> <<>>, uses |-> {}]

StBlock(op, block, line) == [St(op, "", line) EXCEPT !.block = block]

StGo(g, uses, line) == [St("go", g, line) EXCEPT !.uses = uses]

\* main.go 1335-1423
lsVersionIndexCode ==
    <<St("new", "jobs", 1341), St("defer", "jobs", 1342),
      St("new", "hashRegistry", 1343), St("defer", "hashRegistry", 1344),
      St("call", "", 1347), StBlock("iferr", <<>>, 1348),
      St("call", "versionIndex", 1351), StBlock("iferr", <<>>, 1352),
      St("defer", "versionIndex", 1355),
      St("call", "", 1362), StBlock("iferr", <<>>, 1363),
      St("new", "fakeBlockStoreFS", 1367), St("defer", "fakeBlockStoreFS", 1368),
      St("new", "fakeBlockStore", 1370), St("defer", "fakeBlockStoreFS", 1371),
      St("call", "storeIndex", 1373), St("new", "blockStoreFS", 1379),
      StBlock("iferr", <<>>, 1385), St("defer", "blockStoreFS", 1388),
      St("call", "", 1398), StBlock("iferr", <<>>, 1399),
      St("call", "", 1407), StBlock("iferr", <<>>, 1408),
      St("return", "", 1422)>>

\* main.go 1661-1692
validateOneVersionCode ==
    <<St("call", "", 1665), StBlock("iferr", <<>>, 1666),
      StBlock("ifret", <<>>, 1669),
      St("call", "targetVersionIndex", 1674), StBlock("iferr", <<>>, 1675),
      St("defer", "targetVersionIndex", 1678),
      St("call", "targetStoreIndex", 1680), St("defer", "targetStoreIndex", 1681),
      StBlock("iferr", <<>>, 1682), St("defer", "targetStoreIndex", 1685),
      St("call", "", 1687), StBlock("iferr", <<>>, 1688),
      St("return", "", 1691)>>

\* main.go 1730-1751: cloneOneVersion up to the source version index
cloneOneVersionCode ==
    <<StGo("scan", {}, 1731),
      St("call", "", 1733), StBlock("ifok", <<>>, 1734),
      St("call", "", 1740),
      StBlock("iferr", <<St("wait", "scan", 1742), St("dispose", "fileInfos", 1743)>>, 1741),
      St("call", "sourceVersionIndex", 1746),
      StBlock("iferr", <<St("wait", "scan", 1748), St("dispose", "fileInfos", 1749)>>, 1747),
      St("rest", "", 1753)>>

\* main.go 290-348: upSyncVersion up to the source version index
upSyncVersionCode ==
    <<St("call", "", 290), StBlock("iferr", <<>>, 291),
      St("new", "fs", 295), St("defer", "fs", 296),
      StBlock("if", <<StGo("scan", {"fs"}, 300)>>, 299),
      St("new", "jobs", 303), St("defer", "jobs", 304),
      St("new", "hashRegistry", 305), St("defer", "hashRegistry", 306),
      St("call", "", 308), StBlock("iferr", <<>>, 309),
      St("call", "", 312), StBlock("iferr", <<>>, 313),
      StGo("read", {"fs", "jobs", "hashRegistry"}, 321),
      St("call", "remoteStore", 332), StBlock("iferr", <<>>, 333),
      St("defer", "remoteStore", 336),
      St("new", "creg", 338), St("defer", "creg", 339),
      St("new", "indexStore", 341), St("defer", "indexStore", 342),
      St("wait", "read", 344), St("call", "vindex", 344), StBlock("iferr", <<>>, 345),
      St("defer", "vindex", 348),
      St("rest", "", 350)>>

CodeOf(function) ==
    CASE function = "lsVersionIndex" -> lsVersionIndexCode
      [] function = "validateOneVersion" -> validateOneVersionCode
      [] function = "cloneOneVersion" -> cloneOneVersionCode
      [] OTHER -> upSyncVersionCode

HandleFunctions ==
    {"lsVersionIndex", "validateOneVersion", "cloneOneVersion", "upSyncVersion"}

HandleNames ==
    {"jobs", "hashRegistry", "versionIndex", "fakeBlockStoreFS", "fakeBlockStore",
     "storeIndex", "blockStoreFS", "targetVersionIndex", "targetStoreIndex",
     "fileInfos", "sourceVersionIndex", "fs", "remoteStore", "creg", "indexStore",
     "vindex"}

HandlesIdle ==
    [pc |-> "idle", function |-> "", code |-> <<>>, defers |-> <<>>,
     acquired |-> {}, disposed |-> [h \in HandleNames |-> 0],
     failed |-> FALSE, running |-> {}, raced |-> {}]

handlesFrame ==
    <<backend, clone, targetRemote, target, faults, uploaded, up, val, pr, down,
      inspectVars, pipe, fn, storeBlocks, storeIndex, storeGen, blobs, ops>>

\* Dispose of a handle: counted for a handle that was created, and noted when
\* a goroutine that uses the handle is running
Dispose(r, h) ==
    [r EXCEPT !.disposed[h] = IF h \in r.acquired THEN @ + 1 ELSE @,
              !.raced = @ \cup (IF \E g \in r.running : h \in g.uses THEN {h} ELSE {})]

Handles_Call(function) ==
    /\ handles.pc = "idle"
    /\ handles' = [HandlesIdle EXCEPT !.pc = "running", !.function = function,
                                      !.code = CodeOf(function)]
    /\ UNCHANGED handlesFrame

\* the next statement of the function
Handles_Step ==
    /\ handles.pc = "running"
    /\ LET st == Head(handles.code)
           next == [handles EXCEPT !.code = Tail(@)]
           return(block) == [handles EXCEPT !.code = block \o <<St("return", "", st.line)>>]
       IN  CASE st.op = "new" ->
                  handles' = [next EXCEPT !.acquired = @ \cup {st.h}]
             [] st.op = "call" ->
                  \E ok \in BOOLEAN :
                      handles' = [next EXCEPT
                                     !.failed = ~ok,
                                     !.acquired = @ \cup (IF ok /\ st.h # ""
                                                          THEN {st.h} ELSE {})]
             [] st.op = "iferr" ->
                  handles' = IF handles.failed THEN return(st.block) ELSE next
             [] st.op = "ifok" ->
                  handles' = IF ~handles.failed THEN return(st.block) ELSE next
             [] st.op = "ifret" ->
                  \E taken \in BOOLEAN :
                      handles' = IF taken THEN return(st.block) ELSE next
             [] st.op = "if" ->
                  \E taken \in BOOLEAN :
                      handles' = IF taken
                                 THEN [handles EXCEPT !.code = st.block \o Tail(@)]
                                 ELSE next
             [] st.op = "defer" ->
                  handles' = [next EXCEPT !.defers = <<st.h>> \o @]
             [] st.op = "dispose" ->
                  handles' = Dispose(next, st.h)
             [] st.op = "go" ->
                  handles' = [next EXCEPT !.running = @ \cup {[g |-> st.h, uses |-> st.uses]}]
             [] st.op = "wait" ->
                  /\ \A g \in handles.running : g.g # st.h
                  /\ handles' = next
             [] st.op = "return" ->
                  handles' = [next EXCEPT !.pc = "returning"]
             [] OTHER ->
                  handles' = [next EXCEPT !.pc = "beyond"]
    /\ UNCHANGED handlesFrame

\* the function returns: its deferred calls, last in first out
Handles_Deferred ==
    /\ handles.pc = "returning"
    /\ handles' = IF handles.defers = <<>>
                  THEN [handles EXCEPT !.pc = "done"]
                  ELSE Dispose([handles EXCEPT !.defers = Tail(@)], Head(handles.defers))
    /\ UNCHANGED handlesFrame

\* main.go 135-154: the goroutine of scan ends, with the file infos it found
Handles_ScanEnds ==
    /\ \E g \in handles.running :
          /\ g.g = "scan"
          /\ handles' = [handles EXCEPT !.running = @ \ {g},
                                        !.acquired = @ \cup {"fileInfos"}]
    /\ UNCHANGED handlesFrame

\* main.go 161-235 and 237-263: the goroutine of read ends; getFolderIndex has
\* waited for the scan and disposed its file infos
Handles_ReadEnds ==
    /\ \A g \in handles.running : g.g # "scan"
    /\ \E g \in handles.running :
          /\ g.g = "read"
          /\ handles' = Dispose([handles EXCEPT !.running = @ \ {g}], "fileInfos")
    /\ UNCHANGED handlesFrame

(***************************************************************************)
(* Inputs and specifications.                                              *)
(***************************************************************************)
Backends == {"gcs", "s3", "fs"}

LocalStoreIndexOf(versionURI) ==
    CASE versionURI = "v1.lvi" -> "v1.lsi" [] versionURI = "v2.lvi" -> "v2.lsi"

\* the set of input records of upSyncVersion given by a record of sets
UpInputs(S) ==
    [blobStoreURI : S.blobStoreURI, dir : S.dir, sourceIndexPath : S.sourceIndexPath,
     targetFilePath : S.targetFilePath, targetChunkSize : {1}, targetBlockSize : {4},
     maxChunksPerBlock : S.maxChunksPerBlock,
     compressionAlgorithm : S.compressionAlgorithm,
     hashAlgorithm : S.hashAlgorithm, regexOK : S.regexOK,
     minBlockUsagePercent : S.minBlockUsagePercent,
     versionLocalStoreIndexPath : S.versionLocalStoreIndexPath,
     getConfigPath : S.getConfigPath]

\* the n-th command of a behaviour writes the n-th version index
NextVersionURI == IF ops = 0 THEN "v1.lvi" ELSE "v2.lvi"

UpDefaults ==
    [blobStoreURI |-> {StoreURI(SchemeOf(backend))}, dir |-> PlainTrees,
     sourceIndexPath |-> {""}, targetFilePath |-> {NextVersionURI},
     maxChunksPerBlock |-> {2}, compressionAlgorithm |-> {"zstd"},
     hashAlgorithm |-> {"blake3"}, regexOK |-> {TRUE},
     minBlockUsagePercent |-> {0}, versionLocalStoreIndexPath |-> {""},
     getConfigPath |-> {""}]

Quiet ==
    /\ \A w \in Writers : up[w].pc = "idle"
    /\ val.pc = "idle"
    /\ pr.pc = "idle"
    /\ down.pc = "idle"
    /\ show.pc = "idle"
    /\ stats.pc = "idle"
    /\ clone.pc = "idle"

\* an empty store, no blobs, an empty target folder, nothing running
InitCommands(faulty, backends, targets) ==
    /\ backend \in backends
    /\ storeBlocks = {}
    /\ storeIndex = {}
    /\ storeGen = 0
    /\ blobs = [u \in URIs |-> NoBlob]
    /\ target \in targets
    /\ ops = 0
    /\ faults = faulty
    /\ up = [w \in Writers |-> UpIdle]
    /\ uploaded = [u \in VersionURIs |-> EmptyTree]
    /\ val = ValidateIdle
    /\ pr = PruneIdle
    /\ down = DownIdle
    /\ show = ShowIdle
    /\ stats = StatsIdle
    /\ cacheLocal = {}
    /\ cachePending = {}
    /\ pipe = PipeIdle
    /\ clone = CloneIdle
    /\ handles = HandlesIdle
    /\ targetRemote = NoTargetRemote

InitWith(faulty, backends, targets) ==
    /\ InitCommands(faulty, backends, targets)
    /\ fn = NoCall

Init == InitWith({"upSyncVersion"}, Backends, {EmptyTree})

\* Upsyncs one after another, with every failure the steps can meet.
SeqUpInputs ==
    UpInputs([UpDefaults EXCEPT
                 !.maxChunksPerBlock = {1, 2},
                 !.minBlockUsagePercent = {0, 50, 100},
                 !.versionLocalStoreIndexPath = {"", LocalStoreIndexOf(NextVersionURI)}])
    \cup UpInputs([UpDefaults EXCEPT !.getConfigPath = {"get.json"}])
    \cup UpInputs([UpDefaults EXCEPT !.dir = {EmptyTree},
                                     !.blobStoreURI = {StoreURI("abfs"), StoreURI("abfss")}])
    \cup UpInputs([UpDefaults EXCEPT !.dir = {EmptyTree},
                                     !.compressionAlgorithm = {"bogus"}])
    \cup UpInputs([UpDefaults EXCEPT !.dir = {EmptyTree}, !.hashAlgorithm = {"bogus"}])
    \cup UpInputs([UpDefaults EXCEPT !.dir = {EmptyTree}, !.regexOK = {FALSE}])

Next ==
    \/ /\ ops < MaxUploads /\ Quiet
       /\ \E in \in SeqUpInputs : upSyncVersion_Setup("w1", in)
    \/ upSyncVersion_Step("w1")
    \/ upSyncVersion_WriteStoreIndex("w1")
    \/ upSyncVersion_WriteGetConfig("w1")

Spec == Init /\ [][Next]_vars

(***************************************************************************)
(* Upsyncs of two writers running concurrently against one store, without  *)
(* I/O failures.                                                           *)
(***************************************************************************)
FullTrees == {t \in PlainTrees : \A p \in Paths : t[p].present /\ t[p].data # <<>>}

VersionURIOf(w) == IF w = "w1" THEN "v1.lvi" ELSE "v2.lvi"

ConcurrentUpInputs(w) ==
    UpInputs([UpDefaults EXCEPT !.dir = PlainTrees \ {EmptyTree},
                                !.targetFilePath = {VersionURIOf(w)},
                                !.maxChunksPerBlock = {1, 2}])

InitConcurrent == InitWith({}, Backends, {EmptyTree})

NextConcurrent ==
    \/ /\ ops < MaxUploads
       /\ \E w \in Writers :
             /\ up[w].pc = "idle"
             /\ \E in \in ConcurrentUpInputs(w) : upSyncVersion_Setup(w, in)
    \/ \E w \in Writers : upSyncVersion_Step(w)

SpecConcurrent == InitConcurrent /\ [][NextConcurrent]_vars

(***************************************************************************)
(* Upsyncs of two writers, each of which may run several, of folders of    *)
(* one file of one chunk into a store on a backend that locks on the       *)
(* generation, without I/O failures.  Every running upsync takes its next  *)
(* step at some time.                                                      *)
(***************************************************************************)
MaxWriteBacks == 3      \* upsyncs of a behaviour that meets write-back conflicts

OneFileTrees ==
    {t \in PlainTrees : t["a"].present /\ Len(t["a"].data) = 1 /\ ~t["b"].present}

WriteBackUpInputs(w) ==
    UpInputs([UpDefaults EXCEPT !.dir = OneFileTrees,
                                !.targetFilePath = {VersionURIOf(w)}])

InitWriteBack == InitWith({}, {"gcs", "fs"}, {EmptyTree})

NextWriteBack ==
    \/ /\ ops < MaxWriteBacks
       /\ \E w \in Writers :
             /\ up[w].pc = "idle"
             /\ \E in \in WriteBackUpInputs(w) : upSyncVersion_Setup(w, in)
    \/ \E w \in Writers : upSyncVersion_Step(w)

SpecWriteBack ==
    /\ InitWriteBack
    /\ [][NextWriteBack]_vars
    /\ \A w \in Writers : WF_vars(upSyncVersion_Step(w))

(***************************************************************************)
(* Two upsyncs one after another into an empty store, the second of the    *)
(* folder of the first with one file changed.  The folders have a file a   *)
(* of up to MaxIncLen chunks and a file b of one chunk; one folder has a   *)
(* file a of RepackLen chunks.                                             *)
(***************************************************************************)
MaxIncData == 4         \* number of distinct chunk contents of file a
MaxOldData == 2         \* of them in the folder of the first upsync
MaxIncLen == 3          \* chunks of file a
RepackLen == 9          \* chunks of the long file a

IncFile(data) == [present |-> TRUE, data |-> data, perm |-> 420]

IncContents == SeqsUpTo(1..MaxIncData, MaxIncLen) \ {<<>>}

LongContent == [i \in 1..RepackLen |-> i]

\* the long content with every third chunk replaced, from the first on
LongContentChanged ==
    [i \in 1..RepackLen |-> IF i % 3 = 1 THEN RepackLen + 1 + (i \div 3) ELSE i]

IncTrees ==
    {[p \in Paths |-> IF p = "a" THEN IncFile(x[1]) ELSE x[2]] :
        x \in (IncContents \cup {LongContent}) \X {IncFile(<<1>>)}}

\* the folders that differ from the folder in file a
IncChanged(dir) ==
    {[dir EXCEPT !["a"] = IncFile(data)] :
        data \in (IF dir["a"].data = LongContent THEN {LongContentChanged}
                  ELSE IncContents) \ {dir["a"].data}}

IncUpInputs(dirs, targetBlockSizes, maxChunks, minUsages) ==
    {[in EXCEPT !.targetBlockSize = t] :
        in \in UpInputs([UpDefaults EXCEPT !.dir = dirs,
                                          !.maxChunksPerBlock = maxChunks,
                                          !.minBlockUsagePercent = minUsages]),
        t \in targetBlockSizes}

FirstUpInputs ==
    IncUpInputs({d \in IncTrees : Range(d["a"].data) \subseteq 1..MaxOldData
                                      \/ d["a"].data = LongContent},
                {1, MaxIncLen}, 1..MaxIncLen, {0})

SecondUpInputs ==
    IncUpInputs(IncChanged(uploaded["v1.lvi"]), {1, MaxIncLen}, 1..MaxIncLen,
                {0, 100})

InitIncrement == InitWith({}, {"fs"}, {EmptyTree})

NextIncrement ==
    \/ /\ ops = 0 /\ Quiet
       /\ \E in \in FirstUpInputs : upSyncVersion_Setup("w1", in)
    \/ /\ ops = 1 /\ Quiet /\ blobs["v1.lvi"] # NoBlob
       /\ \E in \in SecondUpInputs : upSyncVersion_Setup("w1", in)
    \/ upSyncVersion_Step("w1")

SpecIncrement == InitIncrement /\ [][NextIncrement]_vars

(***************************************************************************)
(* Upsyncs, prunes and validations one after another.  The calls of        *)
(* pruneStore and validateVersion may fail; upsyncs do not.                *)
(***************************************************************************)
PruneUpInputs ==
    UpInputs([UpDefaults EXCEPT
                 !.dir = FullTrees,
                 !.maxChunksPerBlock = {1, 2},
                 !.versionLocalStoreIndexPath = {"", LocalStoreIndexOf(NextVersionURI)}])

\* the lists of version indexes given to pruneStore: none, the versions, a
\* path that holds no version index
SourceLists == {<<>>, <<"v1.lvi">>, <<"v2.lvi">>, <<"v1.lvi", "v2.lvi">>, <<"v1.lsi">>}

\* no list of store index files, the files of the versions, a list of another
\* length and, for a prune that reads them, files that are no store index
StoreIndexLists(sources, write) ==
    {[path |-> "", files |-> <<>>],
     [path |-> "lsis.txt",
      files |-> [i \in 1..Len(sources) |->
                    IF sources[i] \in VersionURIs THEN LocalStoreIndexOf(sources[i])
                    ELSE ""]],
     [path |-> "lsis.txt", files |-> <<"v1.lsi">>]}
    \cup (IF write THEN {} ELSE {[path |-> "lsis.txt", files |-> sources]})

PruneInputs ==
    UNION {
        {[storageURI |-> StoreURI(SchemeOf(backend)), sourceFilePaths |-> x[1],
          versionLocalStoreIndexesPath |-> l.path,
          versionLocalStoreIndexFiles |-> l.files,
          writeVersionLocalStoreIndex |-> x[2], dryRun |-> dryRun,
          numWorkerCount |-> n] :
            l \in StoreIndexLists(x[1], x[2]), dryRun \in BOOLEAN,
            n \in 1..MaxWorkers} : x \in SourceLists \X BOOLEAN}

ValidateInputs ==
    [blobStoreURI : {StoreURI(SchemeOf(backend))},
     versionIndexPath : {"v1.lvi", "v2.lvi", "v1.lsi"}]

InitPrune == InitWith({"pruneStore", "validateVersion"}, {"gcs"}, {EmptyTree})

NextPrune ==
    \/ /\ ops < MaxCommands /\ Quiet
       /\ \E in \in PruneUpInputs : upSyncVersion_Setup("w1", in)
    \/ upSyncVersion_Step("w1")
    \/ upSyncVersion_WriteStoreIndex("w1")
    \/ /\ ops < MaxCommands /\ Quiet
       /\ \E in \in PruneInputs : pruneStore_Setup(in)
    \/ pruneStore_Step
    \/ /\ ops < MaxCommands /\ Quiet
       /\ \E in \in ValidateInputs : validateVersion_Run(in)
    \/ validateVersion_Return

SpecPrune == InitPrune /\ [][NextPrune]_vars

(***************************************************************************)
(* Upsyncs of one folder and then one pruneStore, its goroutines taken     *)
(* step by step: each scans its version and then sends its result, also    *)
(* after pruneStore has returned.  The Go scheduler runs every goroutine   *)
(* that can take a step, which is the weak fairness of each step.          *)
(***************************************************************************)
ScanUpInputs ==
    UpInputs([UpDefaults EXCEPT
                 !.dir = {t \in FullTrees : t["a"].data = <<1>> /\ t["b"].data = <<2>>},
                 !.versionLocalStoreIndexPath = {LocalStoreIndexOf(NextVersionURI)}])

ScanSourceLists ==
    {<<>>, <<"v1.lvi">>, <<"v1.lvi", "v2.lvi">>, <<"v1.lsi", "v1.lvi">>,
     <<"v1.lvi", "v2.lvi", "v1.lvi">>}

ScanStoreIndexLists(sources) ==
    {[path |-> "", files |-> <<>>],
     [path |-> "lsis.txt", files |-> [i \in 1..Len(sources) |-> "v1.lsi"]]}

ScanInputs ==
    UNION {
        {[storageURI |-> StoreURI(SchemeOf(backend)), sourceFilePaths |-> sources,
          versionLocalStoreIndexesPath |-> l.path,
          versionLocalStoreIndexFiles |-> l.files,
          writeVersionLocalStoreIndex |-> FALSE, dryRun |-> dryRun,
          numWorkerCount |-> n] :
            l \in ScanStoreIndexLists(sources), dryRun \in BOOLEAN,
            n \in 1..MaxWorkers} : sources \in ScanSourceLists}

InitPruneScan == InitWith({"pruneStore"}, {"gcs"}, {EmptyTree})

pruneScan_Step ==
    \/ pruneStore_StartBatch
    \/ \E batchPos \in 1..MaxWorkers : pruneStore_Scan(batchPos)
    \/ \E batchPos \in 1..MaxWorkers : pruneStore_Send(batchPos)
    \/ pruneStore_Receive
    \/ pruneStore_PruneBlocks
    \/ pruneStore_Flush

NextPruneScan ==
    \/ /\ ops < MaxUploads /\ Quiet
       /\ \E in \in ScanUpInputs : upSyncVersion_Setup("w1", in)
    \/ upSyncVersion_Step("w1")
    \/ upSyncVersion_WriteStoreIndex("w1")
    \/ /\ Quiet
       /\ \E in \in ScanInputs : pruneStore_Setup(in)
    \/ pruneScan_Step

SpecPruneScan ==
    /\ InitPruneScan
    /\ [][NextPruneScan]_vars
    /\ WF_vars(pruneStore_StartBatch)
    /\ WF_vars(pruneStore_Receive)
    /\ WF_vars(pruneStore_PruneBlocks)
    /\ WF_vars(pruneStore_Flush)
    /\ \A batchPos \in 1..MaxWorkers :
          WF_vars(pruneStore_Scan(batchPos)) /\ WF_vars(pruneStore_Send(batchPos))

(***************************************************************************)
(* Upsyncs, print-version-index and print-version-usage one after another, *)
(* the latter with and without a cache path.  Nothing is pruned.  The      *)
(* calls of upSyncVersion may fail; those of the two readers do not.       *)
(***************************************************************************)
MaxInspections == 4     \* commands of a behaviour that uploads and inspects

InspectUpInputs ==
    UpInputs([UpDefaults EXCEPT !.dir = PlainTrees \ {EmptyTree},
                                !.maxChunksPerBlock = {1, 2},
                                !.hashAlgorithm = {"blake3", "blake2"},
                                !.minBlockUsagePercent = {0, 100}])

ShowInputs == [versionIndexPath : {"v1.lvi", "v2.lvi", "v1.lsi"}, compact : BOOLEAN]

StatsInputs ==
    [blobStoreURI : {StoreURI(SchemeOf(backend))}, versionIndexPath : {"v1.lvi", "v2.lvi"},
     localCachePath : {"", "cache"}, numWorkerCount : 1..MaxWorkers]

InitInspect == InitWith({"upSyncVersion"}, {"fs"}, {EmptyTree})

NextInspect ==
    \/ /\ ops < MaxUploads /\ Quiet
       /\ \E in \in InspectUpInputs : upSyncVersion_Setup("w1", in)
    \/ upSyncVersion_Step("w1")
    \/ /\ ops < MaxInspections /\ Quiet
       /\ \E in \in ShowInputs : showVersionIndex_Run(in)
    \/ showVersionIndex_Return
    \/ /\ ops < MaxInspections /\ Quiet
       /\ \E in \in StatsInputs : stats_Setup(in)
    \/ stats_Step
    \/ CacheBlockStore_Populate

SpecInspect == InitInspect /\ [][NextInspect]_vars

(***************************************************************************)
(* Calls of the store index operations upSyncVersion makes (358-363,       *)
(* 430), on every pair of small store indexes and on the version index of  *)
(* every small folder.                                                     *)
(***************************************************************************)
MaxPackData == 3        \* number of distinct chunk contents of the folders
MaxPackLen == 3         \* chunks per file of the folders
MaxPackBlocks == 2      \* blocks of a store index given to MergeStoreIndex
MaxPackLimit == 3       \* largest target block size and max chunks per block

PackHashId == hashIdentifierMap.blake3

PackChunkHashes == {ChunkHash(PackHashId, d) : d \in 1..MaxPackData}

\* the blocks of one or two different chunks
PackBlocks ==
    {BlockIndex(c) : c \in {x \in SeqsUpTo(PackChunkHashes, 2) :
                               Len(x) > 0 /\ Cardinality(Range(x)) = Len(x)}}

\* the store indexes of up to n blocks, no block hash twice
PackStoreIndexes(n) ==
    {x \in SeqsUpTo(PackBlocks, n) : Cardinality(Range(GetBlockHashes(x))) = Len(x)}

PackTrees ==
    [Paths -> {NoAsset} \cup [present : {TRUE},
                              data : SeqsUpTo(1..MaxPackData, MaxPackLen),
                              perm : PlainPerms]]

MergeCall(a, b) ==
    [NoCall EXCEPT !.op = "MergeStoreIndex", !.pc = "called", !.a = a, !.b = b]

MissingContentCall(existing, dir, targetBlockSize, maxChunksPerBlock) ==
    [NoCall EXCEPT !.op = "CreateMissingContent", !.pc = "called", !.a = existing,
                   !.needed = CreateVersionIndex(dir, PackHashId, 1),
                   !.targetBlockSize = targetBlockSize,
                   !.maxChunksPerBlock = maxChunksPerBlock]

InitIndexOps ==
    /\ InitCommands({}, {"fs"}, {EmptyTree})
    /\ \/ \E a \in PackStoreIndexes(MaxPackBlocks), b \in PackStoreIndexes(MaxPackBlocks) :
             fn = MergeCall(a, b)
       \/ \E existing \in PackStoreIndexes(1), dir \in PackTrees,
             targetBlockSize \in 1..MaxPackLimit, maxChunksPerBlock \in 1..MaxPackLimit :
             fn = MissingContentCall(existing, dir, targetBlockSize, maxChunksPerBlock)

NextIndexOps ==
    \/ MergeStoreIndex_Apply
    \/ CreateMissingContent_Apply

SpecIndexOps == InitIndexOps /\ [][NextIndexOps]_vars

(***************************************************************************)
(* One ChangeVersion through the block store pipeline, with and without a  *)
(* cache store, over a store that holds blocks 1 and 2.  The local store   *)
(* of the cache is empty or holds blocks of earlier runs, block 3 among    *)
(* them, which the store no longer has.                                    *)
(***************************************************************************)
InitStores(stored, locals) ==
    /\ backend = "fs"
    /\ storeBlocks = {PipeBlock(h) : h \in stored}
    /\ storeIndex = {BlockIndex(<<h>>) : h \in stored}
    /\ storeGen = 1
    /\ blobs = [u \in URIs |-> NoBlob]
    /\ target = EmptyTree
    /\ ops = 0
    /\ faults = {}
    /\ up = [w \in Writers |-> UpIdle]
    /\ uploaded = [u \in VersionURIs |-> EmptyTree]
    /\ val = ValidateIdle
    /\ pr = PruneIdle
    /\ down = DownIdle
    /\ show = ShowIdle
    /\ stats = StatsIdle
    /\ cacheLocal \in locals
    /\ cachePending = {}
    /\ pipe = PipeIdle
    /\ clone = CloneIdle
    /\ handles = HandlesIdle
    /\ targetRemote = NoTargetRemote
    /\ fn = NoCall

SmallPlans == [PipeJobs -> SeqsUpTo(1..3, MaxPlanLen)]

InitPipeline ==
    InitStores({1, 2}, {{}, {PipeBlock(1)}, {PipeBlock(1), PipeBlock(3)}})

NextPipeline ==
    \/ \E cache \in BOOLEAN, plan \in SmallPlans : ChangeVersion_Start(cache, plan)
    \/ \E j \in PipeJobs : ShareBlockStore_GetStoredBlock(j)
    \/ \E h \in PipeBlockHashes : LRUBlockStore_OnComplete(h)
    \/ CacheBlockStore_Populate
    \/ CacheBlockStore_PutStoredBlock(PipeBlock(3))
    \/ \E chunkHashes \in {<<1, 3>>, <<2>>} : CacheBlockStore_GetExistingContent(chunkHashes)
    \/ ChangeVersion_Done

SpecPipeline == InitPipeline /\ [][NextPipeline]_vars

(***************************************************************************)
(* One ChangeVersion through the pipeline with a cache store.  The cache   *)
(* store puts every block it fetched into its local store: the put is a    *)
(* job of its own that nothing cancels.                                    *)
(***************************************************************************)
CacheHashes == 1..3

CachePlans ==
    {plan \in [PipeJobs -> SeqsUpTo(CacheHashes, MaxPlanLen)] : Len(plan["j2"]) <= 1}

NextCache ==
    \/ \E plan \in CachePlans : ChangeVersion_Start(TRUE, plan)
    \/ \E j \in PipeJobs : ShareBlockStore_GetStoredBlock(j)
    \/ \E h \in CacheHashes : LRUBlockStore_OnComplete(h)
    \/ CacheBlockStore_Populate
    \/ CacheBlockStore_PutStoredBlock(PipeBlock(3))
    \/ \E chunkHashes \in {<<1, 3>>} : CacheBlockStore_GetExistingContent(chunkHashes)
    \/ ChangeVersion_Done

SpecCache == InitPipeline /\ [][NextCache]_vars /\ WF_vars(CacheBlockStore_Populate)

(***************************************************************************)
(* One ChangeVersion without a cache store in which a job asks for block   *)
(* 1, for up to MaxBetween other blocks and for block 1 again, while       *)
(* another job may ask for block 1 too.                                    *)
(***************************************************************************)
LRUPlans ==
    {[j \in PipeJobs |-> IF j = "j1"
                         THEN <<1>> \o [i \in 1..k |-> i + 1] \o <<1>>
                         ELSE IF both THEN <<1>> ELSE <<>>] :
        k \in 0..MaxBetween, both \in BOOLEAN}

InitLRU == InitStores(PipeBlockHashes, {{}})

NextLRU ==
    \/ \E plan \in LRUPlans : ChangeVersion_Start(FALSE, plan)
    \/ \E j \in PipeJobs : ShareBlockStore_GetStoredBlock(j)
    \/ \E h \in PipeBlockHashes : LRUBlockStore_OnComplete(h)
    \/ ChangeVersion_Done

SpecLRU == InitLRU /\ [][NextLRU]_vars

(***************************************************************************)
(* An upsync and a downsync into a target folder that holds any files.     *)
(* The calls of downSyncVersion may fail; upsyncs do not.                  *)
(***************************************************************************)
RoundTripUpInputs == UpInputs([UpDefaults EXCEPT !.dir = Trees])

DownInputs ==
    [blobStoreURI : {StoreURI(SchemeOf(backend))}, sourceFilePath : {"v1.lvi"},
     targetIndexPath : {"", "v1.lvi"}, localCachePath : {""},
     retainPermissions : BOOLEAN, validate : BOOLEAN,
     versionLocalStoreIndexPath : {""}, regexOK : {TRUE}]

InitRoundTrip == InitWith({"downSyncVersion"}, {"fs"}, Trees)

NextRoundTrip ==
    \/ /\ ops < MaxTransfers - 1 /\ Quiet
       /\ \E in \in RoundTripUpInputs : upSyncVersion_Setup("w1", in)
    \/ upSyncVersion_Step("w1")
    \/ /\ ops < MaxTransfers /\ Quiet
       /\ \E in \in DownInputs : downSyncVersion_Setup(in)
    \/ downSyncVersion_Step

SpecRoundTrip == InitRoundTrip /\ [][NextRoundTrip]_vars

(***************************************************************************)
(* Two upsyncs, a prune that keeps the blocks of one of the versions and a *)
(* downsync of either version into a target folder that holds any files,   *)
(* with the target scanned or read from the index of either version.  The  *)
(* second upsync may use another hash algorithm.  No call fails by I/O.    *)
(***************************************************************************)
DownsyncUpInputs ==
    UpInputs([UpDefaults EXCEPT
                 !.hashAlgorithm = IF ops = 0 THEN {"blake3"}
                                   ELSE {"blake3", "blake2"}])

DownsyncPruneInputs ==
    {[NoPruneInput EXCEPT !.storageURI = StoreURI(SchemeOf(backend)),
                          !.sourceFilePaths = <<u>>,
                          !.dryRun = dryRun] :
        u \in VersionURIs, dryRun \in BOOLEAN}

DownsyncInputs ==
    [blobStoreURI : {StoreURI(SchemeOf(backend))}, sourceFilePath : VersionURIs,
     targetIndexPath : {""} \cup VersionURIs, localCachePath : {""},
     retainPermissions : {FALSE}, validate : BOOLEAN,
     versionLocalStoreIndexPath : {""}, regexOK : {TRUE}]

InitDownsync == InitWith({}, {"fs"}, PlainTrees)

NextDownsync ==
    \/ /\ ops < MaxUploads /\ Quiet
       /\ \E in \in DownsyncUpInputs : upSyncVersion_Setup("w1", in)
    \/ upSyncVersion_Step("w1")
    \/ /\ ops = MaxUploads /\ Quiet
       /\ \E in \in DownsyncPruneInputs : pruneStore_Setup(in)
    \/ pruneStore_Step
    \/ /\ ops = MaxUploads + 1 /\ Quiet
       /\ \E in \in DownsyncInputs : downSyncVersion_Setup(in)
    \/ downSyncVersion_Step

SpecDownsync == InitDownsync /\ [][NextDownsync]_vars

(***************************************************************************)
(* Upsyncs with any filter, compression algorithm and hash algorithm, into *)
(* a store at a URI of any scheme.                                         *)
(***************************************************************************)
CompressionNames == {"zstd", "none", "gzip"}

HashNames == {"blake3", "meow", "sha1"}

\* gs://bucket/store, s3://bucket/store, abfs://store, abfss://store,
\* fsblob://store, file:///store, file://store, store and /store
ArgumentURIs ==
    {StoreURI("gs"), StoreURI("s3"),
     [scheme |-> "abfs", host |-> "store", path |-> <<>>],
     [scheme |-> "abfss", host |-> "store", path |-> <<>>],
     [scheme |-> "fsblob", host |-> "store", path |-> <<>>],
     StoreURI("file"),
     [scheme |-> "file", host |-> "store", path |-> <<>>],
     StoreURI(""),
     [scheme |-> "", host |-> "", path |-> <<"/", "store">>]}

ArgumentUpInputs ==
    UpInputs([UpDefaults EXCEPT !.blobStoreURI = ArgumentURIs,
                                !.dir = OneFileTrees,
                                !.compressionAlgorithm = CompressionNames,
                                !.hashAlgorithm = HashNames,
                                !.regexOK = BOOLEAN])

InitArguments == InitWith({}, {"fs"}, {EmptyTree})

NextArguments ==
    \/ /\ ops < MaxUploads /\ Quiet
       /\ \E in \in ArgumentUpInputs : upSyncVersion_Setup("w1", in)
    \/ upSyncVersion_Step("w1")

SpecArguments == InitArguments /\ [][NextArguments]_vars

(***************************************************************************)
(* Two upsyncs and a cloneStore of the versions, in either order and with  *)
(* a list line that names no version index, into a fresh target store,     *)
(* with and without a list of archives; the steps of cloneStore may fail.   *)
(***************************************************************************)
CloneTrees ==
    {t \in PlainTrees : /\ t["a"].present /\ t["a"].data # <<>>
                        /\ t["b"].present => t["b"].data = <<2>>}

CloneUpInputs ==
    UpInputs([UpDefaults EXCEPT
                 !.dir = CloneTrees,
                 !.hashAlgorithm = IF ops = 0 THEN {"blake3"} ELSE {"blake3", "blake2"},
                 !.versionLocalStoreIndexPath = {LocalStoreIndexOf(NextVersionURI)}])

ZipBlob(entries) == [kind |-> "zip", entries |-> entries]

ZipEntry(name, data) == [name |-> name, data |-> data]

TargetDir == <<"t">>

\* no archive at the URI, an archive of file a, and a line without a URI
CloneZips ==
    {[uri |-> "z1.zip", blob |-> NoBlob],
     [uri |-> "z1.zip", blob |-> ZipBlob(<<ZipEntry(<<"a">>, <<1>>)>>)],
     NoZip}

CloneInputs ==
    {[NoCloneInput EXCEPT
         !.sourceStoreURI = StoreURI(SchemeOf(backend)),
         !.targetStoreURI = StoreURI(""),
         !.targetPath = TargetDir,
         !.sourcePaths = s, !.targetPaths = t,
         !.zipsGiven = z # <<>>, !.sourceZipPaths = z,
         !.targetBlockSize = 4, !.maxChunksPerBlock = m,
         !.createVersionLocalStoreIndex = l, !.skipValidate = k] :
        s \in {<<"v1.lvi">>, <<"v1.lvi", "v2.lvi">>, <<"v2.lvi", "v1.lvi">>,
               <<"v1.lsi", "v2.lvi">>},
        t \in {<<"t1.lvi">>, <<"t1.lvi", "t2.lvi">>, <<"t1.lvi", "t1.lvi">>},
        z \in {<<>>} \cup {<<z1, z2>> : z1 \in CloneZips, z2 \in CloneZips},
        m \in {1, 2}, l \in BOOLEAN, k \in BOOLEAN}

InitClone == InitWith({"cloneStore"}, {"fs"}, {EmptyTree})

NextClone ==
    \/ /\ ops < MaxUploads /\ Quiet
       /\ \E in \in CloneUpInputs : upSyncVersion_Setup("w1", in)
    \/ upSyncVersion_Step("w1")
    \/ upSyncVersion_WriteStoreIndex("w1")
    \/ /\ ops = MaxUploads /\ Quiet
       /\ \E in \in CloneInputs : cloneStore_Setup(in)
    \/ cloneStore_Step

SpecClone == InitClone /\ [][NextClone]_vars

(***************************************************************************)
(* An upsync and a cloneStore of the version whose ChangeVersion may fail, *)
(* with an archive of any entries to fall back to and a target folder that  *)
(* holds any files.                                                        *)
(***************************************************************************)
MaxZipEntries == 2      \* entries of an archive

\* a, b, a/../b, ../a, ../t2/a, ../t/a, . and /a
ZipNames ==
    {<<"a">>, <<"b">>, <<"a", "/", ".", ".", "/", "b">>, <<".", ".", "/", "a">>,
     <<".", ".", "/", "t", "2", "/", "a">>, <<".", ".", "/", "t", "/", "a">>,
     <<".">>, <<"/", "a">>}

ZipArchives ==
    {ZipBlob(entries) :
        entries \in SeqsUpTo({ZipEntry(name, <<1>>) : name \in ZipNames}, MaxZipEntries)}

\* t, t/ and ./t
UnzipTargetPaths == {TargetDir, TargetDir \o <<"/">>, <<".", "/">> \o TargetDir}

UnzipInputs ==
    {[NoCloneInput EXCEPT
         !.sourceStoreURI = StoreURI(SchemeOf(backend)),
         !.targetStoreURI = StoreURI(""),
         !.targetPath = t,
         !.sourcePaths = <<"v1.lvi">>, !.targetPaths = <<"t1.lvi">>,
         !.zipsGiven = TRUE, !.sourceZipPaths = <<[uri |-> "z1.zip", blob |-> z]>>,
         !.targetBlockSize = 4, !.maxChunksPerBlock = 2,
         !.createVersionLocalStoreIndex = TRUE] :
        t \in UnzipTargetPaths, z \in ZipArchives}

InitUnzip == InitWith({"cloneStore"}, {"fs"}, {EmptyTree} \cup CloneTrees)

NextUnzip ==
    \/ /\ ops = 0 /\ Quiet
       /\ \E in \in CloneUpInputs : upSyncVersion_Setup("w1", in)
    \/ upSyncVersion_Step("w1")
    \/ upSyncVersion_WriteStoreIndex("w1")
    \/ /\ ops = 1 /\ Quiet
       /\ \E in \in UnzipInputs : cloneStore_Setup(in)
    \/ cloneStore_Step

SpecUnzip == InitUnzip /\ [][NextUnzip]_vars

(***************************************************************************)
(* An S3 blob store made from a URL, over a bucket that holds objects of   *)
(* this store and of others, and the calls of its client and its objects.  *)
(***************************************************************************)
S3URLs ==
    [scheme : {"s3", "gs", "file", ""}, host : {"bucket"},
     path : {<<>>, <<"/">>, <<"/", "p">>, <<"/", "p", "/">>}]

S3Keys ==
    {<<"a">>, <<"a", "b">>, <<"p", "/", "a">>, <<"p", "a">>, <<"p", "/", "/", "a">>}

MaxS3Objects == 2

S3Buckets ==
    {objects \in SUBSET [key : S3Keys, data : {<<1, 2>>}] :
        Cardinality(objects) <= MaxS3Objects}

InitS3 ==
    /\ InitCommands({}, {"s3"}, {EmptyTree})
    /\ \E u \in S3URLs, objects \in S3Buckets : fn = S3Call(u, objects)

NextS3 ==
    \/ NewS3BlobStore_Apply
    \/ s3BlobObject_Read_Apply
    \/ s3BlobObject_Exists_Apply
    \/ s3BlobClient_GetObjects_Apply

SpecS3 == InitS3 /\ [][NextS3]_vars

(***************************************************************************)
(* One call of a function, statement by statement, with every outcome of   *)
(* the calls that can fail and every interleaving with its goroutines.     *)
(***************************************************************************)
InitHandles == InitCommands({}, {"fs"}, {EmptyTree}) /\ fn = NoCall

NextHandles ==
    \/ \E function \in HandleFunctions : Handles_Call(function)
    \/ Handles_Step
    \/ Handles_Deferred
    \/ Handles_ScanEnds
    \/ Handles_ReadEnds

SpecHandles == InitHandles /\ [][NextHandles]_vars

(***************************************************************************)
(* Properties of upSyncVersion.                                            *)
(***************************************************************************)
UpEarlyErrors ==
    {"GetExistingStoreIndexSync failed", "CreateMissingContent failed",
     "WriteContent failed", "FlushStoresSync failed", "StoreIndexConflict"}

\* the blocks are in the canonical store index and their files in the store
BlocksStored(blockIndexes) ==
    \A b \in blockIndexes :
        b \in storeIndex /\ b.blockHash \in StoredBlockHashes(storeBlocks)

\* C2: a running or just returned upSyncVersion has written its version index
\* only with every missing block put and the flush acknowledged; it writes a
\* store index or a get-config only after the version index; a call that
\* failed in GetExistingStoreIndex, CreateMissingContent, WriteContent or the
\* flush has written no blob at all (the blobs of a first call are all still
\* absent), and a call that returns no error has written the version index.
VersionIndexWrittenAfterFlush ==
    \A w \in Writers :
        LET r == up[w]
        IN  /\ "lvi" \in r.wrote =>
                   /\ r.flushed
                   /\ r.putBlocks = Range(r.missing)
                   /\ BlocksStored(Range(r.missing))
                   /\ blobs[r.in.targetFilePath] = WriteVersionIndexToBuffer(r.vindex)
            /\ r.wrote # {} => "lvi" \in r.wrote
            /\ (r.pc = "done" /\ r.err \in UpEarlyErrors) => r.wrote = {}
            /\ (r.pc # "idle" /\ r.wrote = {} /\ ops = 1) =>
                   \A u \in URIs : blobs[u] = NoBlob
            /\ (r.pc = "done" /\ r.err = "") => "lvi" \in r.wrote

\* a call that had blocks to put has written its version index and its
\* version-local store index
VersionIndexWrittenAfterFlushWitness ==
    \E w \in Writers :
        /\ up[w].pc = "done" /\ up[w].err = ""
        /\ Len(up[w].missing) > 0
        /\ up[w].wrote = {"lvi", "lsi"}

\* C10: the second upSyncVersion of a behaviour that starts with an empty
\* store, run on the directory the first one uploaded, computes an empty
\* missing index, never reaches WriteContent and puts no block.
SameDirectoryUploaded(r) ==
    /\ ops = 2
    /\ r.pc # "idle"
    /\ r.vindex # NoVersionIndex
    /\ blobs["v1.lvi"] = WriteVersionIndexToBuffer(
           CreateVersionIndex(r.in.dir, r.vindex.hashId, r.in.targetChunkSize))

SecondUpsyncPutsNothing ==
    \A w \in Writers :
        SameDirectoryUploaded(up[w]) =>
            /\ up[w].pc # "getMissingContent" => up[w].missing = <<>>
            /\ up[w].pc # "writeContent"
            /\ up[w].putBlocks = {} /\ up[w].added = {}

\* the second upsync of a non-empty directory has returned without error
SecondUpsyncPutsNothingWitness ==
    \E w \in Writers :
        /\ SameDirectoryUploaded(up[w])
        /\ up[w].pc = "done" /\ up[w].err = ""
        /\ up[w].existing # <<>>
        /\ up[w].in.minBlockUsagePercent = 100

\* C3: an upsync that has completed without error has all the blocks it put
\* in the canonical store index, whatever the other writers do and whatever
\* the blob backend is.
NoCompletedWriterLosesBlocks ==
    \A w \in Writers :
        (up[w].pc = "done" /\ up[w].err = "") => up[w].putBlocks \subseteq storeIndex

\* C4: once the flush of a run is acknowledged, get_existing_content on the
\* canonical store index returns every block the run put, for its chunks.
FlushedPutsAreIndexed ==
    \A w \in Writers :
        up[w].flushed =>
            \A b \in up[w].putBlocks :
                b \in Range(GetExistingStoreIndex(storeIndex, b.chunkHashes, 0))

\* the same two properties on the backends that lock on the generation
LockingBackendKeepsBlocks ==
    SupportsLocking(backend) =>
        NoCompletedWriterLosesBlocks /\ FlushedPutsAreIndexed

(***************************************************************************)
(* Properties of the round trip.                                           *)
(***************************************************************************)
SameFiles(t, d) ==
    \A p \in Paths :
        /\ t[p].present = d[p].present
        /\ d[p].present => t[p].data = d[p].data

SamePermissions(t, d) == \A p \in Paths : d[p].present => t[p].perm = d[p].perm

\* a downsync of a version index written by an upsync has returned no error
RoundTripDone ==
    /\ down.pc = "done" /\ down.err = ""
    /\ blobs[down.in.sourceFilePath] = WriteVersionIndexToBuffer(down.sourceVersionIndex)

RoundTripEqual ==
    /\ SameFiles(target, uploaded[down.in.sourceFilePath])
    /\ down.in.retainPermissions =>
           SamePermissions(target, uploaded[down.in.sourceFilePath])

\* the target index is made by scanning the target folder, or the index read
\* from targetIndexPath is the index a scan would have made
TargetIndexDescribesTarget ==
    \/ down.in.targetIndexPath = ""
    \/ down.targetVersionIndex =
           CreateVersionIndex(down.targetBefore, down.sourceVersionIndex.hashId,
                              down.sourceVersionIndex.targetChunkSize)

VersionInStore(uri) ==
    /\ ReadVersionIndexFromBuffer(blobs[uri]).errno = 0
    /\ \A c \in Range(GetChunkHashes(ReadVersionIndexFromBuffer(blobs[uri]).vindex)) :
          \E b \in storeIndex :
              /\ c \in Range(b.chunkHashes)
              /\ b.blockHash \in StoredBlockHashes(storeBlocks)

PruneSources == Range(pr.in.sourceFilePaths)

\* C5: when a pruneStore without dry-run that met no failure has returned no
\* error, every listed version index has all its chunks in the pruned store.
PrunedVersionsValidate ==
    (pr.pc = "done" /\ ~pr.in.dryRun /\ pr.err = "" /\ pr.failed = {}) =>
        \A uri \in PruneSources : VersionInStore(uri)

SwallowedFailures ==
    {"ReadFromURI", "ReadVersionIndexFromBuffer", "ReadStoreIndexFromBuffer",
     "GetExistingStoreIndexSync"}

\* C6: a pruneStore without dry-run in which the read or the parse of a
\* version index, the parse of a store index file or the query of the store
\* failed never calls PruneBlocks and returns an error.
PruneFailureStops ==
    (~pr.in.dryRun /\ \E f \in pr.failed : f[2] \in SwallowedFailures) =>
        /\ ~pr.pruneBlocksCalled
        /\ pr.pc \notin {"prune", "flush"}
        /\ pr.pc = "done" => pr.err # ""

ComputedBlockHashes ==
    UNION {Range(pr.computed[i]) : i \in 1..Len(pr.computed)}

\* C7: the argument of PruneBlocks lists no hash twice and is the union of
\* the block hashes computed for the listed versions, which for a version
\* looked up in the store are the blocks that hold one of its chunks; after
\* PruneBlocks the store holds exactly the blocks of that union it held.
PruneKeepsUnion ==
    pr.pruneBlocksCalled =>
        /\ Cardinality(Range(pr.blockHashes)) = Len(pr.blockHashes)
        /\ Range(pr.blockHashes) = ComputedBlockHashes
        /\ \A i \in 1..Len(pr.computed) :
              (pr.versionLocalStoreIndexFilePaths = <<>>
               /\ \A f \in pr.failed : f[1] # i) =>
                  Range(pr.computed[i]) =
                      {b.blockHash : b \in
                          {x \in pr.before.storeIndex :
                              Range(x.chunkHashes) \cap Range(GetChunkHashes(
                                  ReadVersionIndexFromBuffer(
                                      blobs[pr.in.sourceFilePaths[i]]).vindex)) # {}}}
        /\ pr.err # "store.PruneBlocks() failed" =>
              /\ StoredBlockHashes(storeBlocks) =
                     StoredBlockHashes(pr.before.storeBlocks) \cap ComputedBlockHashes
              /\ storeIndex = {b \in pr.before.storeIndex :
                                  b.blockHash \in ComputedBlockHashes}

\* a prune of two versions in one batch kept blocks, deleted others, and a
\* version that was not listed has lost a block
PruneKeepsUnionWitness ==
    /\ pr.pc = "done" /\ pr.err = "" /\ pr.pruneBlocksCalled
    /\ pr.blockHashes # <<>>
    /\ storeBlocks # pr.before.storeBlocks
    /\ \E uri \in VersionURIs \ PruneSources :
          ReadVersionIndexFromBuffer(blobs[uri]).errno = 0 /\ ~VersionInStore(uri)

\* C8: a pruneStore with dryRun opens the store read-only, never calls
\* PruneBlocks or flush, leaves the store and every blob as they were, turns
\* missing data into a warning, and reports the number of blocks to keep.
DryRunChangesNothing ==
    (pr.pc # "idle" /\ pr.in.dryRun) =>
        /\ pr.storeMode = "ReadOnly"
        /\ ~pr.pruneBlocksCalled /\ ~pr.flushCalled
        /\ pr.pc \notin {"prune", "flush"}
        /\ storeBlocks = pr.before.storeBlocks
        /\ storeIndex = pr.before.storeIndex
        /\ blobs = pr.before.blobs
        /\ pr.err # "Data is missing in store"
        /\ \A f \in pr.failed : f[2] \notin {"DataMissing", "WriteToURI"}
        /\ (pr.pc = "done" /\ pr.err = "") =>
               pr.reported = Cardinality(ComputedBlockHashes)

\* a dry run asked to write the store index files has returned no error
\* and a block count after a warning for a version
DryRunChangesNothingWitness ==
    /\ pr.pc = "done" /\ pr.err = "" /\ pr.in.dryRun
    /\ pr.in.writeVersionLocalStoreIndex
    /\ pr.versionLocalStoreIndexFilePaths # <<>>
    /\ \E f \in pr.failed : f[2] = "DataMissingWarning"
    /\ pr.reported = 0

ValidateReadErrors ==
    {"ReadFromURI failed", "ReadVersionIndexFromBuffer failed",
     "GetExistingStoreIndexSync failed"}

\* C9: a validateVersion that got a store index from the store returns no
\* error exactly when every chunk hash of the version index is in that store
\* index, which is when it is in a block of the canonical index; it returns
\* no error in no other case.
ValidateVersionSound ==
    val.pc = "done" =>
        LET chunks == Range(GetChunkHashes(val.vindex))
        IN  /\ val.err = "" =>
                  /\ blobs[val.in.versionIndexPath] = WriteVersionIndexToBuffer(val.vindex)
                  /\ chunks \subseteq StoreIndexChunks(val.remoteStoreIndex)
                  /\ \A c \in chunks : \E b \in storeIndex : c \in Range(b.chunkHashes)
            /\ val.err = "ValidateStore failed" =>
                  /\ ~(chunks \subseteq StoreIndexChunks(val.remoteStoreIndex))
                  /\ \E c \in chunks : \A b \in storeIndex : c \notin Range(b.chunkHashes)
            /\ val.err \in {"", "ValidateStore failed"} \cup ValidateReadErrors

\* a validation has failed for a version whose blocks a prune deleted
ValidateVersionSoundWitness ==
    /\ val.pc = "done" /\ val.err = "ValidateStore failed"
    /\ GetChunkHashes(val.vindex) # <<>>
    /\ blobs[val.in.versionIndexPath] = WriteVersionIndexToBuffer(val.vindex)

(***************************************************************************)
(* Properties of the commands that read the store.                         *)
(***************************************************************************)
\* the blocks of the canonical store index that hold a chunk of the version
BlocksOfVersion(vindex) ==
    {b \in storeIndex : Range(b.chunkHashes) \cap Range(GetChunkHashes(vindex)) # {}}

\* the version index at the URI reads, each of its chunks is in a block of the
\* store index, and each block of the store index that holds one of its
\* chunks is answered by the store and by a cache block store over the store
VersionServed(uri) ==
    LET vi == ReadVersionIndexFromBuffer(ReadFromURI(uri).buffer)
    IN  /\ ReadFromURI(uri).err = ""
        /\ vi.errno = 0
        /\ Range(GetChunkHashes(vi.vindex)) \subseteq
               StoreIndexChunks(SortByBlockHash(BlocksOfVersion(vi.vindex)))
        /\ \A b \in BlocksOfVersion(vi.vindex) :
               /\ GetStoredBlock(storeBlocks, b.blockHash).errno = 0
               /\ GetStoredBlock(storeBlocks, b.blockHash).storedBlock.chunkHashes
                      = b.chunkHashes
               /\ CacheGetStoredBlock(cacheLocal, storeBlocks, b.blockHash).errno = 0
               /\ CacheGetStoredBlock(cacheLocal, storeBlocks, b.blockHash)
                      .storedBlock.chunkHashes = b.chunkHashes

\* a stats call on a version index that exists has returned
StatsOfVersionDone == stats.pc = "done" /\ blobs[stats.in.versionIndexPath] # NoBlob

\* C11: while nothing is pruned, every version index a successful upsync has
\* written stays readable, all its chunks are in the store index and every
\* block holding one of them is fetched from the store and through a cache
\* store; a stats call on it, with or without a cache path, returns no error
\* having fetched every such block and found a block for every chunk.
VersionsStayServed ==
    /\ \A uri \in VersionURIs : blobs[uri] # NoBlob => VersionServed(uri)
    /\ StatsOfVersionDone =>
          /\ stats.err = ""
          /\ Range(stats.blockHashes) =
                 {b.blockHash : b \in BlocksOfVersion(stats.versionIndex)}
          /\ stats.fromLocal \cup stats.fromRemote = Range(stats.blockHashes)
          /\ Range(GetChunkHashes(stats.versionIndex)) \subseteq DOMAIN stats.blockLookup
          /\ stats.assetFragmentCount >= Len(SelectSeq(stats.versionIndex.assets,
                                                      LAMBDA a : a.size > 0))

\* the fourth command is a stats call through a cache store that a stats
\* call has filled, on the first of two versions
VersionsStayServedWitness ==
    /\ StatsOfVersionDone
    /\ stats.in.versionIndexPath = "v1.lvi"
    /\ stats.in.localCachePath = "cache"
    /\ stats.fromLocal # {}
    /\ blobs["v2.lvi"] # NoBlob
    /\ blobs["v2.lvi"] # blobs["v1.lvi"]
    /\ ops = MaxInspections

\* the upsync of writer w has written its version index
WroteVersionIndex(w) == up[w].pc # "idle" /\ "lvi" \in up[w].wrote

\* a showVersionIndex call on the path of a version index has returned
ShowOfVersionDone ==
    /\ show.pc = "done"
    /\ show.in.versionIndexPath \in VersionURIs
    /\ blobs[show.in.versionIndexPath] # NoBlob

\* C12: the blob an upsync has written at targetFilePath reads back and
\* parses, and the parsed index has the version, hash identifier, target chunk
\* size, asset count and chunk table of the index the upsync wrote;
\* showVersionIndex on it returns no error and reports these values.
VersionIndexReadsBack ==
    /\ \A w \in Writers :
          WroteVersionIndex(w) =>
              LET rd == ReadFromURI(up[w].in.targetFilePath)
                  vi == ReadVersionIndexFromBuffer(rd.buffer)
              IN  /\ rd.err = ""
                  /\ vi.errno = 0
                  /\ vi.vindex.version = up[w].vindex.version
                  /\ vi.vindex.hashId = up[w].vindex.hashId
                  /\ vi.vindex.targetChunkSize = up[w].in.targetChunkSize
                  /\ Len(vi.vindex.assets) = Len(up[w].vindex.assets)
                  /\ GetChunkHashes(vi.vindex) = GetChunkHashes(up[w].vindex)
                  /\ vi.vindex = up[w].vindex
    /\ ShowOfVersionDone =>
          LET dir == uploaded[show.in.versionIndexPath]
          IN  /\ show.err = ""
              /\ show.report.version = VersionIndexVersion
              /\ show.report.hashIdentifier \in {"blake3", "blake2"}
              /\ show.report.targetChunkSize = 1
              /\ show.report.assetCount = Cardinality({p \in Paths : dir[p].present})
              /\ show.report.chunkCount =
                     Cardinality(UNION {Range(dir[p].data) : p \in Paths})

\* an upsync has written the index of a folder of two files of different
\* content, hashed with blake2, over an earlier version index
VersionIndexReadsBackWitness ==
    /\ WroteVersionIndex("w1")
    /\ Len(up["w1"].vindex.assets) = 2
    /\ Len(GetChunkHashes(up["w1"].vindex)) = 2
    /\ up["w1"].vindex.hashId = hashIdentifierMap.blake2
    /\ up["w1"].in.targetFilePath = "v2.lvi"
    /\ blobs["v1.lvi"] # NoBlob

(***************************************************************************)
(* Properties of the store indexes.                                        *)
(***************************************************************************)
\* no chunk hash is listed by two blocks of the set of block indexes
ChunkUnique(index) ==
    \A b1, b2 \in index :
        b1 # b2 => Range(b1.chunkHashes) \cap Range(b2.chunkHashes) = {}

\* the version-local store indexes written so far
LocalStoreIndexes ==
    {Range(ReadStoreIndexFromBuffer(blobs[u]).storeIndex) :
        u \in {x \in StoreIndexURIs : blobs[x] # NoBlob}}

\* C13 as stated: in the canonical store index and in every version-local
\* store index (the results of MergeStoreIndex), whatever the
\* min-block-usage-percent of the upsyncs, each chunk hash is in the chunk
\* list of at most one block.
StoreIndexesChunkUnique ==
    /\ ChunkUnique(storeIndex)
    /\ \A index \in LocalStoreIndexes : ChunkUnique(index)

\* C13, amended: a step of an upsync run with min-block-usage-percent 0 keeps
\* the canonical store index and the version-local store indexes free of
\* chunk hashes listed by two blocks.
ChunkUniqueWithoutRepack ==
    [][(up["w1"].in.minBlockUsagePercent = 0 /\ StoreIndexesChunkUnique)
           => StoreIndexesChunkUnique']_vars

\* the second upsync, run with min-block-usage-percent 0, has added a block
\* to the store index of the first and written its version-local store index
ChunkUniqueWithoutRepackWitness ==
    /\ ops = 2
    /\ up["w1"].in.minBlockUsagePercent = 0
    /\ up["w1"].flushed
    /\ up["w1"].missing # <<>>
    /\ "lsi" \in up["w1"].wrote
    /\ Cardinality(storeIndex) >= 2
    /\ StoreIndexesChunkUnique

\* a call of MergeStoreIndex has returned
MergeReturned == fn.op = "MergeStoreIndex" /\ fn.pc = "returned"

\* C14: MergeStoreIndex(a, b) and MergeStoreIndex(b, a) list the same set of
\* block hashes, the block hashes of a and of b, and each of them once.
MergeCommutes ==
    MergeReturned =>
        /\ Range(GetBlockHashes(fn.result)) = Range(GetBlockHashes(fn.swapped))
        /\ Range(GetBlockHashes(fn.result)) =
               Range(GetBlockHashes(fn.a)) \cup Range(GetBlockHashes(fn.b))
        /\ Cardinality(Range(GetBlockHashes(fn.result))) = Len(fn.result)
        /\ Cardinality(Range(GetBlockHashes(fn.swapped))) = Len(fn.swapped)

\* the merged indexes share a block and each has a block the other lacks
MergeCommutesWitness ==
    /\ MergeReturned
    /\ Range(GetBlockHashes(fn.a)) \cap Range(GetBlockHashes(fn.b)) # {}
    /\ Range(GetBlockHashes(fn.a)) \ Range(GetBlockHashes(fn.b)) # {}
    /\ Range(GetBlockHashes(fn.b)) \ Range(GetBlockHashes(fn.a)) # {}
    /\ fn.result # fn.swapped

\* a call of CreateMissingContent has returned
MissingContentReturned == fn.op = "CreateMissingContent" /\ fn.pc = "returned"

\* the chunk hashes of the version in the order they first appear when
\* walking its assets
WalkOrder(vindex) ==
    Dedup(Flatten([i \in 1..Len(vindex.assets) |-> AssetChunkHashes(vindex, i)]))

\* the size of a block: the sum of the sizes of its chunks
BlockSize(vindex, block) ==
    SumSeq([j \in 1..Len(block.chunkHashes) |->
               GetChunkSizes(vindex)[IndexOf(vindex.chunkHashes, block.chunkHashes[j])]])

\* C19: the blocks CreateMissingContent returns list exactly the chunk hashes
\* of the version that the existing index lacks, each once, in the order of
\* their first appearance in the walk of the assets; no block has more than
\* max_chunks_per_block chunks or more than target_block_size bytes, none is
\* empty, and every block but the last has reached one of the two limits.
MissingContentPacked ==
    MissingContentReturned =>
        LET absent == SelectSeq(WalkOrder(fn.needed),
                                LAMBDA c : c \notin StoreIndexChunks(fn.a))
        IN  /\ Flatten([i \in 1..Len(fn.result) |-> fn.result[i].chunkHashes]) = absent
            /\ \A i \in 1..Len(fn.result) :
                   /\ Len(fn.result[i].chunkHashes) >= 1
                   /\ Len(fn.result[i].chunkHashes) <= fn.maxChunksPerBlock
                   /\ BlockSize(fn.needed, fn.result[i]) <= fn.targetBlockSize
                   /\ fn.result[i].blockHash = BlockHash(fn.result[i].chunkHashes)
            /\ \A i \in 1..(Len(fn.result) - 1) :
                   \/ Len(fn.result[i].chunkHashes) = fn.maxChunksPerBlock
                   \/ BlockSize(fn.needed, fn.result[i]) = fn.targetBlockSize

\* a version of two files that share a chunk, one chunk of it in the existing
\* index, packed into a block closed by the count limit and a last block
MissingContentPackedWitness ==
    /\ MissingContentReturned
    /\ Len(fn.needed.assets) = 2
    /\ Range(AssetChunkHashes(fn.needed, 1)) \cap Range(AssetChunkHashes(fn.needed, 2)) # {}
    /\ StoreIndexChunks(fn.a) \cap Range(GetChunkHashes(fn.needed)) # {}
    /\ fn.maxChunksPerBlock < fn.targetBlockSize
    /\ Len(fn.result) = 2
    /\ Len(fn.result[1].chunkHashes) = fn.maxChunksPerBlock

(***************************************************************************)
(* Properties of the block store pipeline.                                 *)
(***************************************************************************)
\* the jobs waiting for the answer to a get of the hash
Waiters(h) == {j \in PipeJobs : pipe.wait[j] = h}

\* C15: for each hash at most one get is in flight below the share store;
\* a get of a hash in flight issues no get below (the job waits and the gets
\* issued below stay as they are); the answer completes every waiter of the
\* hash with one result, block or error.
ShareCoalesces ==
    /\ [](\A h \in PipeBlockHashes :
             /\ pipe.inflight[h] <= 1
             /\ pipe.inflight[h] = 1 <=> h \in pipe.promises
             /\ Waiters(h) # {} => pipe.inflight[h] = 1)
    /\ [][\A j \in PipeJobs :
             (pipe.wait[j] = 0 /\ pipe'.wait[j] # 0 /\ pipe.inflight[pipe'.wait[j]] > 0)
                 => pipe'.below = pipe.below /\ pipe'.inflight = pipe.inflight]_vars
    /\ [][\A h \in PipeBlockHashes :
             pipe'.inflight[h] < pipe.inflight[h] =>
                 /\ Waiters(h) # {}
                 /\ \A j \in Waiters(h) :
                        /\ pipe'.wait[j] = 0
                        /\ pipe'.last[j].from # "lru"
                        /\ \A k \in Waiters(h) : pipe'.last[k] = pipe'.last[j]]_vars

\* two jobs wait for one get of block 1, which is in flight once
ShareCoalescesWitness ==
    /\ Waiters(1) = PipeJobs
    /\ pipe.inflight[1] = 1
    /\ Len(SelectSeq(pipe.below, LAMBDA h : h = 1)) = 1

\* the number of gets of the hash issued below the LRU store
FetchCount(h) == Len(SelectSeq(pipe.below, LAMBDA x : x = h))

\* C16 as stated: each block is fetched from the layer below the LRU store
\* at most once, however many blocks are asked for in between.
FetchedOnce == \A h \in PipeBlockHashes : FetchCount(h) <= 1

\* after the LRU store has handed out the hash it has handed out at least n
\* other blocks before handing it out again (or until now)
ServedApart(h, n) ==
    \E i \in 1..Len(pipe.served), j \in 2..(Len(pipe.served) + 1) :
        /\ i < j
        /\ pipe.served[i] = h
        /\ j <= Len(pipe.served) => pipe.served[j] = h
        /\ \A x \in (i + 1)..(j - 1) : pipe.served[x] # h
        /\ Cardinality({pipe.served[x] : x \in (i + 1)..(j - 1)}) >= n

\* C16, amended: a block is fetched from the layer below the LRU store a
\* second time only when the LRU store has handed out at least LRUCapacity
\* (32) other blocks since a use of it.
FetchedOnceWithinCapacity ==
    \A h \in Range(pipe.below) : FetchCount(h) > 1 => ServedApart(h, LRUCapacity)

\* block 1 was used by both jobs, by one of them again after 31 other
\* blocks, and was fetched once
FetchedOnceWithinCapacityWitness ==
    /\ pipe.pc = "done"
    /\ pipe.last["j2"].blockHash = 1
    /\ ServedApart(1, LRUCapacity - 1)
    /\ ~ServedApart(1, LRUCapacity)
    /\ FetchCount(1) = 1

\* the hashes whose get below the LRU store is answered by this step
AnsweredNow == {h \in PipeBlockHashes : pipe'.inflight[h] < pipe.inflight[h]}

\* the remote store has answered a get of the hash through the cache store
FetchedFromRemote(h) ==
    /\ pipe.cache
    /\ \E i \in 1..Len(pipe.answered) :
          /\ pipe.answered[i].blockHash = h
          /\ pipe.answered[i].from = "remote"
          /\ pipe.answered[i].errno = 0

\* C17: with a cache store, a get of a block the local store has is answered
\* with the block of the local store and the remote store is not asked; a get
\* of a block only the remote store has asks the remote store, hands its
\* block to the waiters and the block is eventually in the local store; a
\* block that was put is in both stores; the answer of get_existing_content
\* lists the blocks of the remote store that hold an asked chunk, whatever
\* the local store holds.
CacheStoreContract ==
    /\ [][\A h \in AnsweredNow :
             pipe.cache =>
                 IF h \in StoredBlockHashes(cacheLocal)
                 THEN /\ pipe'.remote = pipe.remote
                      /\ \A j \in Waiters(h) :
                             pipe'.last[j] = [errno |-> 0, blockHash |-> h, from |-> "local"]
                 ELSE /\ pipe'.remote = Append(pipe.remote, h)
                      /\ h \in StoredBlockHashes(storeBlocks) =>
                             \A j \in Waiters(h) :
                                 pipe'.last[j] =
                                     [errno |-> 0, blockHash |-> h, from |-> "remote"]]_vars
    /\ \A h \in CacheHashes :
          FetchedFromRemote(h) ~> (h \in StoredBlockHashes(cacheLocal))
    /\ [](\A b \in pipe.added :
             /\ b.blockHash \in StoredBlockHashes(storeBlocks)
             /\ pipe.cache => b.blockHash \in StoredBlockHashes(cacheLocal))
    /\ [][(pipe'.asked # pipe.asked \/ pipe'.existing # pipe.existing) =>
             Range(GetBlockHashes(pipe'.existing)) =
                 {b.blockHash : b \in {x \in storeBlocks :
                     Range(x.chunkHashes) \cap Range(pipe'.asked) # {}}}]_vars

\* with a cache store holding blocks 1 and 3: a get was answered by the local
\* store, block 2 was fetched from the remote store and is in the local store
\* now, get_existing_content for the chunks of blocks 1 and 3 has listed
\* block 1 only, and block 3 was put
CacheStoreContractWitness ==
    /\ pipe.cache
    /\ \E i \in 1..Len(pipe.answered) : pipe.answered[i].from = "local"
    /\ FetchedFromRemote(2)
    /\ 2 \in StoredBlockHashes(cacheLocal)
    /\ pipe.asked = <<1, 3>>
    /\ GetBlockHashes(pipe.existing) = <<1>>
    /\ pipe.added # {}

(***************************************************************************)
(* Properties of the store index write-back.                               *)
(***************************************************************************)
\* the write-back of the writer is running
InWriteBack(w) == up[w].pc \in {"flush", "flushWrite"}

\* the write of the writer meets a store index another writer has written
\* since the writer read it
MeetsConflict(w) ==
    /\ up[w].pc = "flushWrite"
    /\ up[w].lockGen # storeGen

\* C18: a write-back that meets a conflict goes back to reading the store
\* index unless it was attempt MaxAttempts, after which the upsync returns
\* StoreIndexConflict with nothing written and no flush acknowledged; a write
\* keeps the blocks the store index has (it merges into the index it read
\* again); no write-back sees more than MaxAttempts conflicts and every
\* write-back comes to an end.
WriteBackTerminates ==
    /\ [](\A w \in Writers :
             /\ up[w].attempts < MaxAttempts
             /\ up[w].err = "StoreIndexConflict" =>
                    /\ up[w].pc = "done"
                    /\ ~up[w].flushed
                    /\ up[w].wrote = {}
                    /\ up[w].attempts = MaxAttempts - 1)
    /\ [][\A w \in Writers :
             (MeetsConflict(w) /\ up'[w] # up[w]) =>
                 /\ storeIndex' = storeIndex /\ storeGen' = storeGen
                 /\ IF up[w].attempts + 1 < MaxAttempts
                    THEN /\ up'[w].pc = "flush"
                         /\ up'[w].attempts = up[w].attempts + 1
                         /\ up'[w].added = up[w].added
                    ELSE /\ up'[w].pc = "done"
                         /\ up'[w].err = "StoreIndexConflict"]_vars
    /\ [][storeIndex \subseteq storeIndex'
             /\ \A w \in Writers :
                    (up[w].pc = "flushWrite" /\ up'[w].flushed) =>
                        storeIndex' = storeIndex \cup up[w].added]_vars
    /\ \A w \in Writers : InWriteBack(w) ~> ~InWriteBack(w)

\* the write-back of a writer has met a conflict at each of its MaxAttempts
\* attempts and the upsync has returned StoreIndexConflict, while the other
\* writer's write-backs were done
WriteBackTerminatesWitness ==
    /\ up["w1"].err = "StoreIndexConflict"
    /\ up["w1"].attempts = MaxAttempts - 1
    /\ storeGen = MaxAttempts
    /\ up["w2"].flushed

(***************************************************************************)
(* C20  Incrementality of upsync.                                          *)
(***************************************************************************)
ChangedFiles(old, new) == {p \in Paths : old[p] # new[p]}

\* the chunk positions of a file at which the two folders differ
ChangedChunks(old, new, p) ==
    LET x == IF old[p].present THEN old[p].data ELSE <<>>
        y == IF new[p].present THEN new[p].data ELSE <<>>
        n == IF Len(x) > Len(y) THEN Len(x) ELSE Len(y)
    IN  {i \in 1..n : i > Len(x) \/ i > Len(y) \/ x[i] # y[i]}

CeilDiv(k, m) == (k + m - 1) \div m

\* the second upsync has written its blocks and not yet the store index
SecondWrote ==
    /\ ops = 2
    /\ up["w1"].pc = UpAfterWriteContent
    /\ Cardinality(ChangedFiles(uploaded["v1.lvi"], up["w1"].in.dir)) = 1

NewBlocks ==
    {b \in up["w1"].putBlocks :
        \A x \in storeIndex : x.blockHash # b.blockHash}

IncrementLimit ==
    LET p == CHOOSE q \in ChangedFiles(uploaded["v1.lvi"], up["w1"].in.dir) : TRUE
        k == Cardinality(ChangedChunks(uploaded["v1.lvi"], up["w1"].in.dir, p))
    IN  CeilDiv(k, up["w1"].in.maxChunksPerBlock) + 1

\* C20 as stated: the second upsync of a folder that differs from the first
\* in one file by k chunks writes at most ceil(k / max_chunks_per_block) + 1
\* new blocks, whatever the target block size and the limits
IncrementBound ==
    SecondWrote => Cardinality(NewBlocks) <= IncrementLimit

\* no block is closed by the target block size before it holds
\* max_chunks_per_block chunks, and no stored block is re-packed
CountCloses ==
    /\ up["w1"].in.minBlockUsagePercent = 0
    /\ up["w1"].in.targetBlockSize >=
           up["w1"].in.maxChunksPerBlock * up["w1"].in.targetChunkSize

\* C20 (amended): the second upsync of a folder that differs from the first
\* in one file by k chunks writes at most ceil(k / max_chunks_per_block) + 1
\* new blocks when min-block-usage-percent is 0 and target_block_size holds
\* max_chunks_per_block chunks
IncrementBoundWhenCountCloses ==
    (SecondWrote /\ CountCloses) => Cardinality(NewBlocks) <= IncrementLimit

IncrementBoundWhenCountClosesWitness ==
    /\ SecondWrote
    /\ CountCloses
    /\ up["w1"].in.maxChunksPerBlock = 2
    /\ Cardinality(NewBlocks) = 2
    /\ IncrementLimit = 3

(***************************************************************************)
(* Properties of downSyncVersion.                                          *)
(***************************************************************************)
\* downSyncVersion has made the diff of its two indexes
DiffMade == down.pc \in {"changeVersion", "flush", "validate"}

Modified(versionDiff) ==
    versionDiff.modifiedContent \cup versionDiff.modifiedPermissions

\* the path is in both indexes with another hash or other permissions
AssetDiffers(targetVersionIndex, sourceVersionIndex, p) ==
    /\ p \in AssetPaths(targetVersionIndex) \cap AssetPaths(sourceVersionIndex)
    /\ \/ AssetOf(targetVersionIndex, p).hash # AssetOf(sourceVersionIndex, p).hash
       \/ AssetOf(targetVersionIndex, p).perm # AssetOf(sourceVersionIndex, p).perm

\* ChangeVersion has applied the diff of a scanned target folder
DiffApplied == down.pc = "flush" /\ down.in.targetIndexPath = ""

\* C21: the diff of the target index and the source index names a path as
\* added iff only the source has it, as removed iff only the target has it,
\* as modified iff both have it with another hash or other permissions, and
\* not at all iff both have it unchanged; no path is in two of the classes;
\* the folder the diff was applied to has the paths and the asset hashes of
\* the source and, with retainPermissions, its permissions.
DiffClassifiesPaths ==
    LET t == down.targetVersionIndex
        s == down.sourceVersionIndex
        d == down.versionDiff
        after == CreateVersionIndex(target, s.hashId, s.targetChunkSize)
    IN  /\ DiffMade =>
              /\ \A p \in Paths :
                    /\ p \in d.added <=> p \in AssetPaths(s) \ AssetPaths(t)
                    /\ p \in d.removed <=> p \in AssetPaths(t) \ AssetPaths(s)
                    /\ p \in Modified(d) <=> AssetDiffers(t, s, p)
                    /\ p \notin DiffPaths(d) <=>
                          \/ p \notin AssetPaths(t) \cup AssetPaths(s)
                          \/ /\ p \in AssetPaths(t) \cap AssetPaths(s)
                             /\ ~AssetDiffers(t, s, p)
              /\ d.added \cap d.removed = {}
              /\ d.added \cap Modified(d) = {}
              /\ d.removed \cap Modified(d) = {}
        /\ DiffApplied =>
              /\ AssetPaths(after) = AssetPaths(s)
              /\ \A p \in AssetPaths(s) :
                    /\ AssetOf(after, p).hash = AssetOf(s, p).hash
                    /\ down.in.retainPermissions =>
                          AssetOf(after, p).perm = AssetOf(s, p).perm

\* a diff with one path removed and one modified in its permissions only has
\* been applied with retainPermissions
DiffClassifiesPathsWitness ==
    /\ DiffApplied
    /\ down.in.retainPermissions
    /\ down.versionDiff.removed # {}
    /\ down.versionDiff.modifiedPermissions \ down.versionDiff.modifiedContent # {}

\* the chunks of the assets of the source that the diff adds or modifies
ChunksOfChangedAssets ==
    LET s == down.sourceVersionIndex
    IN  UNION {Range(AssetChunkHashes(s, i)) :
                  i \in {k \in 1..Len(s.assets) :
                            s.assets[k].path \in down.versionDiff.added
                                                   \cup Modified(down.versionDiff)}}

\* the store was asked for the chunks of changed assets only, and the blocks
\* ChangeVersion may get all hold one of them
AsksForChangedOnly ==
    /\ Range(down.chunkHashes) \subseteq ChunksOfChangedAssets
    /\ \A i \in 1..Len(down.retargettedVersionStoreIndex) :
          Range(down.retargettedVersionStoreIndex[i].chunkHashes)
              \cap ChunksOfChangedAssets # {}

\* the target folder was the folder of the source version when the call began
TargetWasSource ==
    /\ down.pc # "idle"
    /\ blobs[down.in.sourceFilePath] # NoBlob
    /\ down.targetBefore = uploaded[down.in.sourceFilePath]

\* nothing is asked of the store, no block can be got, no path is changed
NothingToDo ==
    /\ target = down.targetBefore
    /\ DiffMade =>
          /\ down.chunkHashes = <<>>
          /\ down.retargettedVersionStoreIndex = <<>>
          /\ DiffPaths(down.versionDiff) = {}

TargetIndexedLikeSource ==
    DiffMade =>
        /\ down.targetVersionIndex.hashId = down.sourceVersionIndex.hashId
        /\ down.targetVersionIndex.targetChunkSize =
               down.sourceVersionIndex.targetChunkSize

ValidationErrors ==
    {"downSyncVersion: failed validation: asset count mismatch",
     "downSyncVersion: failed validation"}

\* downSyncVersion has returned from its validation, or past it
Validated ==
    /\ down.pc = "done"
    /\ down.in.validate
    /\ down.err \in {""} \cup ValidationErrors

\* the target folder indexes to the assets of the source version index
TargetMatchesSource ==
    LET s == down.sourceVersionIndex
        v == CreateVersionIndex(target, s.hashId, s.targetChunkSize)
    IN  /\ AssetPaths(v) = AssetPaths(s)
        /\ \A p \in AssetPaths(v) \cap AssetPaths(s) :
              /\ AssetOf(v, p).size = AssetOf(s, p).size
              /\ AssetOf(v, p).hash = AssetOf(s, p).hash
              /\ down.in.retainPermissions => AssetOf(v, p).perm = AssetOf(s, p).perm

\* C24: a downSyncVersion with validate returns no error only if the target
\* folder, indexed again, has the asset paths of the source version index
\* and per path its size, its hash and, with retainPermissions, its
\* permissions; with any difference it returns a validation error.
ValidateDecides ==
    /\ (down.pc = "done" /\ down.in.validate /\ down.err = "") => TargetMatchesSource
    /\ Validated => (down.err = "" <=> TargetMatchesSource)

\* a validation has refused a target with the paths of the source that
\* ChangeVersion left unlike the source
ValidateDecidesWitness ==
    /\ Validated
    /\ down.err = "downSyncVersion: failed validation"
    /\ down.in.targetIndexPath # ""
    /\ AssetPaths(CreateVersionIndex(target, down.sourceVersionIndex.hashId,
                                     down.sourceVersionIndex.targetChunkSize))
           = AssetPaths(down.sourceVersionIndex)

\* the chunks asked of the store that no block of the returned index holds
UncoveredChunks ==
    {c \in Range(down.chunkHashes) :
        \A i \in 1..Len(down.retargettedVersionStoreIndex) :
            c \notin Range(down.retargettedVersionStoreIndex[i].chunkHashes)}

\* downSyncVersion is past ChangeVersion, or has returned no error
PastChangeVersion ==
    \/ down.pc \in {"flush", "validate"}
    \/ down.pc = "done" /\ down.err = ""

\* C25 as stated: downSyncVersion returns an error whenever a chunk the diff
\* requires is in no block of the store index the store returned, and it
\* never returns without error with a target folder that lacks content of
\* the source version.
MissingContentFails ==
    /\ PastChangeVersion => UncoveredChunks = {}
    /\ RoundTripDone => SameFiles(target, uploaded[down.in.sourceFilePath])

\* C25, amended: the same, the second part for a downsync whose target
\* index describes the target folder or that validates the target.
MissingContentFailsOfIndexedTarget ==
    /\ PastChangeVersion => UncoveredChunks = {}
    /\ (RoundTripDone /\ (TargetIndexDescribesTarget \/ down.in.validate)) =>
           SameFiles(target, uploaded[down.in.sourceFilePath])

\* a downsync of a version whose blocks were pruned has failed in
\* ChangeVersion
MissingContentFailsOfIndexedTargetWitness ==
    /\ down.pc = "done"
    /\ down.err = "ChangeVersion failed"
    /\ UncoveredChunks # {}
    /\ TargetIndexDescribesTarget

(***************************************************************************)
(* Properties of the arguments of upSyncVersion and of the store URI.      *)
(***************************************************************************)
InvalidArguments(in) ==
    \/ ~in.regexOK
    \/ in.compressionAlgorithm \notin DOMAIN compressionTypeMap
    \/ in.hashAlgorithm \notin DOMAIN hashIdentifierMap

\* C28: an upSyncVersion called with an invalid filter, an unknown
\* compression algorithm or an unknown hash algorithm has returned an error,
\* has made no block store and has put no block and written no blob.
ArgumentsCheckedFirst ==
    \A w \in Writers :
        (up[w].pc # "idle" /\ InvalidArguments(up[w].in)) =>
            /\ up[w].pc = "done"
            /\ up[w].err # ""
            /\ up[w].store = NoStore
            /\ up[w].putBlocks = {} /\ up[w].added = {}
            /\ up[w].wrote = {}
            /\ ~up[w].flushed

\* a second upsync, into a store that holds blocks, was refused for its
\* compression algorithm
ArgumentsCheckedFirstWitness ==
    /\ up["w1"].pc = "done"
    /\ up["w1"].err = "unsupported compression algorithm"
    /\ up["w1"].in.regexOK
    /\ up["w1"].in.hashAlgorithm \notin DOMAIN hashIdentifierMap
    /\ storeBlocks # {}

\* what follows scheme:// in the URI, or the bare path
PathOfURI(uri) == (IF uri.host = "" THEN <<>> ELSE <<uri.host>>) \o uri.path

\* C29: the store made for a URI is a remote store over GCS for gs, a
\* remote store over S3 for s3, none and an error for abfs and abfss, and a
\* file-system store rooted at the path for fsblob://path, file://path and
\* a bare path.
StoreSelectedByScheme ==
    \A w \in Writers :
        (up[w].pc # "idle" /\ ~InvalidArguments(up[w].in)) =>
            LET uri == up[w].in.blobStoreURI
                st == up[w].store
            IN  CASE uri.scheme = "gs" ->
                        st.kind = "remote" /\ st.blob = "gcs" /\ st.err = ""
                  [] uri.scheme = "s3" ->
                        st.kind = "remote" /\ st.blob = "s3" /\ st.err = ""
                  [] uri.scheme \in {"abfs", "abfss"} ->
                        st.kind = "none" /\ st.err # "" /\ up[w].err = st.err
                  [] OTHER ->
                        /\ st.kind = "fs" /\ st.err = ""
                        /\ st.root = PathOfURI(uri)

(***************************************************************************)
(* Properties of stats.                                                    *)
(***************************************************************************)
\* main.go 1568-1569: the call has printed its statistics
StatsReported == stats.pc = "done" /\ stats.err \in {"", "FlushStoresSync failed"}

\* C30: the Asset Fragmentation of a stats call that reported on a version
\* with at least one asset is 100 * fragments / assets - 100 and is not
\* below zero, also when assets of the version have no chunk.
FragmentationNonNegative ==
    (StatsReported /\ Len(stats.versionIndex.assets) > 0) =>
        LET percent == (100 * stats.assetFragmentCount)
                           \div Len(stats.versionIndex.assets) - 100
        IN  /\ percent >= 0
            /\ stats.assetFragmentation = [hi |-> 0, lo |-> percent]

(***************************************************************************)
(* Properties of cloneStore.                                               *)
(***************************************************************************)
\* cloneStore has returned without an error
CloneReturnedNil == clone.pc = "done" /\ clone.err = ""

\* the pairs of the input lists
ClonePairs == 1..Min(Len(clone.in.sourcePaths), Len(clone.in.targetPaths))

\* the blob at a target URI is a version index with every chunk in the store
\* index of the target store
TargetVersionValid(targetFilePath) ==
    LET tbuffer == targetRemote.blobs[targetFilePath]
        vi == ReadVersionIndexFromBuffer(tbuffer)
    IN  /\ tbuffer # NoBlob
        /\ vi.errno = 0
        /\ ValidateStore(GetExistingStoreIndex(targetRemote.index,
                                               GetChunkHashes(vi.vindex), 0),
                         vi.vindex) = 0

\* C26: when cloneStore has returned without an error, the target version
\* index of every pair of the lists exists and validates against the target
\* store, and the target store holds no more blocks than the source store.
ClonedVersionsValidate ==
    CloneReturnedNil =>
        /\ \A i \in ClonePairs : TargetVersionValid(clone.in.targetPaths[i])
        /\ Cardinality(targetRemote.blocks) <= Cardinality(storeBlocks)

\* a path lies strictly under a directory: its elements are the elements of
\* the directory and at least one more, none of them ..
Under(path, dir) ==
    LET d == SplitPath(Clean(dir))
        q == SplitPath(path)
    IN  /\ Len(q) > Len(d)
        /\ SubSeq(q, 1, Len(d)) = d
        /\ \A k \in 1..Len(q) : q[k] \notin {<<>>, <<".">>, <<".", ".">>}

\* the entries of the archive being unpacked and the path of the k-th
UnzipFiles == SourceFileZip.blob.entries

UnzipPath(k) == Join(clone.in.targetPath, UnzipFiles[k].name)

\* C27: while an archive is unpacked, every path written is the joined path
\* of an entry and lies strictly under the target path, and an entry whose
\* path does not has stopped the extraction with an error, nothing written
\* for it or after it.
ZipSlipRefused ==
    clone.entry > 0 =>
        /\ Len(clone.written) = clone.entry - 1
        /\ \A k \in 1..Len(clone.written) :
              /\ clone.written[k] = UnzipPath(k)
              /\ Under(clone.written[k], clone.in.targetPath)
        /\ \A k \in 1..Len(UnzipFiles) :
              ~Under(UnzipPath(k), clone.in.targetPath) =>
                  /\ clone.entry <= k
                  /\ clone.entry = k =>
                        \/ clone.pc = "extract"
                        \/ clone.pc = "done" /\ clone.err = "illegal file path"

\* the second entry of an archive was refused after the first was written:
\* its path, t2/a, starts with the text of the target path
ZipSlipRefusedWitness ==
    /\ clone.pc = "done"
    /\ clone.err = "illegal file path"
    /\ clone.entry = 2
    /\ target["a"].present
    /\ HasPrefix(UnzipPath(2), Clean(clone.in.targetPath))

\* the index made of the target folder with the hash algorithm and the chunk
\* size of an index
IndexOfTargetLike(vindex) ==
    CreateVersionIndex(target, vindex.hashId, vindex.targetChunkSize)

\* the source version index cloneOneVersion is about to read
CloneSourceRead == ReadVersionIndexFromBuffer(ReadFromURI(SourceFilePath).buffer)

\* C35: a valid current version index that cloneStore holds between two
\* versions, or has passed to cloneOneVersion, describes the target folder
\* as it is, and when the source index is read it has the hash algorithm and
\* the chunk size of the source.
BaselineDescribesFolder ==
    (clone.pc \in {"loop", "validate", "readSource"}
        /\ clone.currentVersionIndex.valid) =>
        LET current == clone.currentVersionIndex.vindex
        IN  /\ current = IndexOfTargetLike(current)
            /\ (clone.pc = "readSource" /\ CloneSourceRead.errno = 0) =>
                  /\ current.hashId = CloneSourceRead.vindex.hashId
                  /\ current.targetChunkSize = CloneSourceRead.vindex.targetChunkSize

\* the flush cloneOneVersion has started is not yet acknowledged
FlushUnacknowledged == clone.flushing \/ clone.flushErrno # 0

\* C36: while the flush of the target store is not acknowledged no blob has
\* been written for the version, and every version index at a target URI has
\* all its chunks in the store index of the target store.
IndexVisibleAfterFlush ==
    /\ (clone.pc \in {"writeStoreIndex", "wait"}) => ~FlushUnacknowledged
    /\ \A u \in TargetVersionURIs :
          targetRemote.blobs[u] # NoBlob => TargetVersionValid(u)

\* the versions cloneStore clones: as many as the shortest list has lines
CloneCount ==
    LET n == Min(Len(clone.in.sourcePaths), Len(clone.in.targetPaths))
    IN  IF clone.in.zipsGiven THEN Min(n, Len(clone.in.sourceZipPaths)) ELSE n

\* C37: when the loop of cloneStore ends with the target version index of
\* every pair in place, cloneStore returns nil, having cloned as many
\* versions as the shortest list has lines.
CloneReturnsNil ==
    [][(/\ clone.pc = "loop" /\ clone'.pc = "done"
        /\ \A i \in 1..CloneCount : TargetVersionValid(clone.in.targetPaths[i]))
           => (clone'.err = "" /\ clone.pos = CloneCount)]_vars

(***************************************************************************)
(* Properties of the S3 blob store.                                        *)
(***************************************************************************)
S3Called(op) == fn.op = "s3" /\ fn.pc = "open" /\ fn.call.op = op

\* the request of the last call finds the bucket and the key, and nothing
\* else goes wrong with it
S3KeyFound == fn.call.failure = "none" /\ HasKey(fn.objects, fn.call.key)

\* the only thing wrong with the request of the last call is that the bucket
\* has no object at the key
S3KeyMissing ==
    fn.call.failure \in {"none", "body"} /\ ~HasKey(fn.objects, fn.call.key)

\* C33: Read returns all bytes of the object and no error when the key is
\* there, an error that is os.ErrNotExist when the service answers that the
\* key is not there, and an error that is not os.ErrNotExist for every other
\* failure; Exists returns (true, nil) for a key that is there, (false, nil)
\* exactly for an answer with status 404 and (false, error) for every other
\* failure.
S3ErrorsClassified ==
    /\ S3Called("Read") =>
          IF S3KeyFound
          THEN /\ fn.call.err = NilError
               /\ fn.call.data = ObjectAt(fn.objects, fn.call.key).data
          ELSE /\ fn.call.err # NilError
               /\ fn.call.data = <<>>
               /\ ErrorsIs(fn.call.err, ErrNotExist) <=> S3KeyMissing
    /\ S3Called("Exists") =>
          IF S3KeyFound
          THEN fn.call.exists /\ fn.call.err = NilError
          ELSE /\ ~fn.call.exists
               /\ fn.call.err = NilError <=>
                     (S3KeyMissing \/ fn.call.failure = "NoSuchBucket")

S3ErrorsClassifiedWitness ==
    /\ S3Called("Read")
    /\ S3KeyMissing
    /\ fn.store.prefix # <<>>
    /\ ErrorsIs(fn.call.err, ErrNotExist)

\* the prefix of the URL s3://bucket/prefix
S3URLPrefix == IF fn.u.path = <<>> THEN <<>> ELSE Tail(fn.u.path)

S3KeyOf(path) ==
    IF S3URLPrefix = <<>> THEN path ELSE S3URLPrefix \o <<"/">> \o path

\* C40: the store is made exactly of the URLs with scheme s3; the object of
\* a path addresses the key prefix/path, or the path with an empty prefix;
\* every name GetObjects returns for a path prefix starts with it and as an
\* object addresses the key that was listed.
S3KeysAddressed ==
    fn.op = "s3" =>
        /\ fn.pc = "failed" => (fn.u.scheme # "s3" /\ fn.err # NilError)
        /\ fn.pc = "open" => fn.u.scheme = "s3"
        /\ (S3Called("Read") \/ S3Called("Exists")) =>
              fn.call.key = S3KeyOf(fn.call.path)
        /\ S3Called("GetObjects") =>
              \A item \in fn.call.items :
                  /\ HasPrefix(item.Name, fn.call.path)
                  /\ s3BlobClient_NewObject(fn.store, item.Name) = item.key
                  /\ item.key = S3KeyOf(item.Name)

S3KeysAddressedWitness ==
    /\ S3Called("GetObjects")
    /\ fn.store.prefix # <<>>
    /\ fn.call.path # <<>>
    /\ fn.call.items # {}

(***************************************************************************)
(* Properties of the version-local store index.                            *)
(***************************************************************************)
\* the call of writer w1 has written its version index and its version-local
\* store index and returned
LocalIndexWritten ==
    /\ up["w1"].pc = "done"
    /\ {"lvi", "lsi"} \subseteq up["w1"].wrote

\* C39: the version-local store index an upsync has written holds every
\* chunk of the version index the upsync has written, and every block it
\* lists is in the store.
LocalIndexSatisfiesVersion ==
    LocalIndexWritten =>
        LET vindex == ReadVersionIndexFromBuffer(
                          blobs[up["w1"].in.targetFilePath]).vindex
            sindex == ReadStoreIndexFromBuffer(
                          blobs[up["w1"].in.versionLocalStoreIndexPath]).storeIndex
        IN  /\ Range(GetChunkHashes(vindex)) \subseteq StoreIndexChunks(sindex)
            /\ Range(GetBlockHashes(sindex)) \subseteq StoredBlockHashes(storeBlocks)

LocalIndexSatisfiesVersionWitness ==
    /\ LocalIndexWritten
    /\ ops = 2
    /\ up["w1"].in.minBlockUsagePercent > 0
    /\ up["w1"].existing # <<>>
    /\ up["w1"].missing # <<>>

(***************************************************************************)
(* Properties of the scan of pruneStore.                                   *)
(***************************************************************************)
\* the version whose goroutine ends in this step
PruneScanned(i) ==
    /\ pr.pc = "receive"
    /\ i - pr.batchStart \in pr.running
    /\ i - pr.batchStart \notin pr'.running

PruneLocalPath(i) ==
    IF Len(pr.versionLocalStoreIndexFilePaths) > 0
    THEN pr.versionLocalStoreIndexFilePaths[i] ELSE ""

PruneSourceIndex(i) ==
    ReadVersionIndexFromBuffer(ReadFromURI(pr.in.sourceFilePaths[i]).buffer)

PruneSourceRead(i) ==
    ReadFromURI(pr.in.sourceFilePaths[i]).err = "" /\ PruneSourceIndex(i).errno = 0

PruneLocalIndex(i) == ReadStoreIndexFromBuffer(ReadFromURI(PruneLocalPath(i)).buffer)

\* a path is given for the version, the index files are not to be written,
\* the file is read and parsed and its index validates against the version
PruneLocalIndexUsable(i) ==
    /\ PruneLocalPath(i) # ""
    /\ ~pr.in.writeVersionLocalStoreIndex
    /\ ReadFromURI(PruneLocalPath(i)).err = ""
    /\ PruneLocalIndex(i).errno = 0
    /\ ValidateStore(PruneLocalIndex(i).storeIndex, PruneSourceIndex(i).vindex) = 0

PruneQueried(i) ==
    GetExistingStoreIndex(storeIndex, GetChunkHashes(PruneSourceIndex(i).vindex), 0)

\* C32: the block set found for a version whose index was read is that of
\* its version-local store index file exactly when that file is usable; in
\* every other case it is the one the store answers, when the store answers
\* and the answer validates against the version index, and none otherwise.
PruneBlockSetSource ==
    [][\A i \in 1..Len(pr.in.sourceFilePaths) :
          (PruneScanned(i) /\ PruneSourceRead(i)) =>
              pr'.computed[i] =
                  IF PruneLocalIndexUsable(i)
                  THEN GetBlockHashes(PruneLocalIndex(i).storeIndex)
                  ELSE IF /\ <<i, "GetExistingStoreIndexSync">> \notin pr'.failed
                          /\ ValidateStore(PruneQueried(i), PruneSourceIndex(i).vindex) = 0
                  THEN GetBlockHashes(PruneQueried(i))
                  ELSE <<>>]_vars

\* pruneStore has returned on the error of a goroutine, within a batch
PruneReturnedEarly ==
    /\ pr.pc = "done"
    /\ pr.batchLength > 0
    /\ pr.batchStart < Len(pr.in.sourceFilePaths)

\* the results of the batch: received, in the channel and still to be sent
PruneBatchResults ==
    pr.batchPos + (IF PruneReturnedEarly THEN 1 ELSE 0)
        + Len(pr.batchErrors) + Cardinality(pr.running)

PruneBatchCounted ==
    /\ (pr.pc = "receive" \/ PruneReturnedEarly) => PruneBatchResults = pr.batchLength
    /\ Len(pr.batchErrors) <= PruneChannelCapacity(pr.batchCount)
    /\ \A s \in pr.sending :
          /\ s.batchPos \in pr.running
          /\ pr.blockHashesPerBatch[s.batchPos] = pr.computed[pr.batchStart + s.batchPos]
    /\ (pr.pc \in {"batch", "prune", "flush"} \/ (pr.pc = "done" /\ ~PruneReturnedEarly)) =>
          (pr.running = {} /\ pr.sending = {} /\ pr.batchErrors = <<>>)

PruneBatchRead ==
    (pr.pc = "receive" /\ (pr'.usedBlocks # pr.usedBlocks \/ pr'.pc = "batch")) =>
        /\ pr.running = {}
        /\ pr.batchPos + 1 = pr.batchLength
        /\ Len(pr.batchErrors) = 1

\* C38: every goroutine of a batch gives one result, after its slot of
\* blockHashesPerBatch is written; the channel never holds more than its
\* capacity; blockHashesPerBatch is read, the next batch started and
\* PruneBlocks called only when the batchLength results are received; every
\* goroutine comes to its end, also when pruneStore has returned on the
\* first error, and pruneStore returns, also for an empty list.
PruneScanProtocol ==
    /\ []PruneBatchCounted
    /\ [][PruneBatchRead]_vars
    /\ (pr.running # {}) ~> (pr.running = {})
    /\ (pr.pc \in {"batch", "receive", "prune", "flush"}) ~> (pr.pc = "done")

PruneScanProtocolWitness ==
    /\ PruneReturnedEarly
    /\ pr.batchLength = 2
    /\ pr.running = {}
    /\ Len(pr.batchErrors) = 1

\* C34: when pruneStore has returned, and its deferred Dispose calls of the
\* store and the job API have run, no goroutine it started is still running.
GoroutinesEndBeforeDispose == pr.pc = "done" => pr.running = {}


(***************************************************************************)
(* Properties of the handles of a call.                                    *)
(***************************************************************************)
\* the call returned and its goroutines ended
HandlesReturned == handles.pc = "done" /\ handles.running = {}

\* C31: when lsVersionIndex, validateOneVersion, cloneOneVersion or
\* upSyncVersion has returned, on any exit path, every handle it created was
\* disposed exactly once: none twice, none never.
HandlesDisposedOnce ==
    HandlesReturned => \A h \in handles.acquired : handles.disposed[h] = 1
====
